---- MODULE Spec2Model ----
(***************************************************************************)
(* A model of mcp-puppeteer's element-reference core: the reference-ID     *)
(* codec (parseElementRefId and the id template of the simplifier), the    *)
(* two tree simplifiers (simplifyNode, processSnapshot), their renderers,  *)
(* the cross-frame resolver (findElementInPage) with its matching strategy *)
(* (findElementByRefId) and the batch capture of all frames                *)
(* (getAllFrameTrees).                                                     *)
(*                                                                         *)
(* A JavaScript string is modelled as a sequence of one-character strings, *)
(* so that formatting a number and matching a regular expression are       *)
(* computed character by character, as the code does.                      *)
(***************************************************************************)
EXTENDS Integers, Sequences, FiniteSets, TLC

VARIABLES
    refId,        \* the string handed to parseElementRefId / findElementInPage
    parseResult,  \* outcome of the last parseElementRefId(refId) call
    encodedFrom,  \* the tuple the simplifier's id template built refId from
    rawTree,      \* what page.accessibility.snapshot() returns right now
    captures,     \* the capture calls made so far, each with its input and output
    domChanges,   \* how often the page's DOM has changed
    page,         \* the page handed to findElementInPage, with its page.frames()
    resolution,   \* outcome of the last findElementInPage(page, refId) call
    located,      \* the last findElementByRefId call: its arguments and its result
    batch,        \* the getAllFrameTrees(page) call: its per-frame captures and its result
    connection,   \* the connectWithRetry call: its attempts so far and its outcome
    navigation,   \* the puppeteer_navigate call: the allowlist, the url and the result
    client,       \* the SSEClient of the browser page: its fields, buttons and timers
    server        \* the MCP server: its globals browser and page, and the calls in flight

codecVars == <<refId, parseResult, encodedFrom>>

snapshotVars == <<rawTree, captures, domChanges>>

resolverVars == <<page, resolution, located, batch>>

serverVars == <<connection, navigation, client, server>>

vars ==
    <<refId, parseResult, encodedFrom, rawTree, captures, domChanges,
      page, resolution, located, batch, connection, navigation, client, server>>

----------------------------------------------------------------------------
(* Bounds *)

\* longest reference string typed in by a caller
MaxRefLen == 6
\* largest frame / snapshot / element number handed to the id template
MaxIndex == 11
\* most nodes in a raw accessibility tree
MaxNodes == 4
\* most capture calls in one run
MaxCaptures == 3
\* most DOM changes in one run
MaxDomChanges == 1
\* most capture calls in a run in which the DOM changes
MaxCapturesAround == 2
\* most frames of a page
MaxFrames == 2
\* most nodes in the raw tree of one frame of a page that is resolved against
MaxFrameNodes == 1
\* most nodes in the raw tree the matching strategy is run on
MaxLocateNodes == 4
\* most frames of a page whose frames are captured in one batch
MaxBatchFrames == 3
\* most nodes in a raw tree that is rendered
MaxRenderNodes == 3
\* largest maxRetries handed to connectWithRetry (its default is 3)
MaxRetries == 4
\* most ensureBrowser invocations of a run: tool calls and background reconnections
MaxCalls == 2
\* most browsers connected to or launched in a run
MaxBrowsers == 2
\* most EventSources the SSE client creates in a run
MaxSources == 7

----------------------------------------------------------------------------
(* Strings *)

Digits == <<"0", "1", "2", "3", "4", "5", "6", "7", "8", "9">>

DigitChars == {Digits[i] : i \in 1..10}

\* the characters callers type: the three letters of the grammar, two
\* digits, and one character that is in no grammar
Alphabet == {"f", "s", "e", "0", "1", "x"}

IsDigit(c) == c \in DigitChars

DigitValue(c) == (CHOOSE i \in 1..10 : Digits[i] = c) - 1

\* the strings of length at most n over the alphabet
RECURSIVE StringsUpTo(_)
StringsUpTo(n) ==
    IF n = 0 THEN {<<>>}
    ELSE LET shorter == StringsUpTo(n - 1)
         IN  shorter \cup {Append(s, c) : s \in {t \in shorter : Len(t) = n - 1}, c \in Alphabet}

\* String(n) for a non-negative integer, as a template literal formats it:
\* decimal, no sign, no leading zero
RECURSIVE NumToStr(_)
NumToStr(n) ==
    IF n < 10 THEN <<Digits[n + 1]>>
    ELSE Append(NumToStr(n \div 10), Digits[(n % 10) + 1])

\* parseInt(text, 10) on a run of decimal digits
RECURSIVE parseInt(_)
parseInt(text) ==
    IF Len(text) = 0 THEN 0
    ELSE 10 * parseInt(SubSeq(text, 1, Len(text) - 1)) + DigitValue(text[Len(text)])

\* \d+ : a non-empty run of decimal digits
IsDigitRun(text) == Len(text) > 0 /\ \A i \in 1..Len(text) : IsDigit(text[i])

----------------------------------------------------------------------------
(* ReferenceCodec: parseElementRefId *)

NoMatch == <<>>

\* refId.match(/^f(\d+)s(\d+)e(\d+)$/): the three capture groups, or NoMatch
frameMatch(text) ==
    LET n == Len(text)
        splits == {<<i, j>> \in (1..n) \X (1..n) :
                      /\ i < j
                      /\ text[1] = "f"
                      /\ text[i] = "s"
                      /\ text[j] = "e"
                      /\ IsDigitRun(SubSeq(text, 2, i - 1))
                      /\ IsDigitRun(SubSeq(text, i + 1, j - 1))
                      /\ IsDigitRun(SubSeq(text, j + 1, n))}
    IN  IF splits = {} THEN NoMatch
        ELSE LET p == CHOOSE q \in splits : TRUE
             IN  <<SubSeq(text, 2, p[1] - 1),
                   SubSeq(text, p[1] + 1, p[2] - 1),
                   SubSeq(text, p[2] + 1, n)>>

\* mainMatch with the closing anchor forgotten: /^s(\d+)e(\d+)/
mainMatchUnanchored(text) ==
    LET n == Len(text)
        splits == {<<j, k>> \in (1..n) \X (1..n) :
                      /\ j < k
                      /\ text[1] = "s"
                      /\ text[j] = "e"
                      /\ IsDigitRun(SubSeq(text, 2, j - 1))
                      /\ IsDigitRun(SubSeq(text, j + 1, k))
                      /\ (k = n \/ ~IsDigit(text[k + 1]))}
    IN  IF splits = {} THEN NoMatch
        ELSE LET p == CHOOSE q \in splits : TRUE
             IN  <<SubSeq(text, 2, p[1] - 1), SubSeq(text, p[1] + 1, p[2])>>

\* refId.match(/^s(\d+)e(\d+)$/): the two capture groups, or NoMatch
mainMatch(text) ==
    LET n == Len(text)
        splits == {j \in 1..n :
                      /\ text[1] = "s"
                      /\ text[j] = "e"
                      /\ IsDigitRun(SubSeq(text, 2, j - 1))
                      /\ IsDigitRun(SubSeq(text, j + 1, n))}
    IN  IF splits = {} THEN NoMatch
        ELSE LET j == CHOOSE q \in splits : TRUE
             IN  <<SubSeq(text, 2, j - 1), SubSeq(text, j + 1, n)>>

Returned(v) == [status |-> "returned", value |-> v]

Thrown(e) == [status |-> "thrown", error |-> e]

NotCalled == [status |-> "none"]

InvalidReferenceFormat == "Invalid element reference ID format"

\* parseElementRefId building both results from one object literal, so that a
\* main-frame reference comes back with a frameIndex field
parseElementRefIdAlwaysFrame(text) ==
    LET fm == frameMatch(text)
        mm == mainMatch(text)
    IN  IF fm # NoMatch
        THEN Returned([frameIndex |-> parseInt(fm[1]),
                       snapshotIndex |-> parseInt(fm[2]),
                       elementIndex |-> parseInt(fm[3])])
        ELSE IF mm # NoMatch
        THEN Returned([frameIndex |-> 0,
                       snapshotIndex |-> parseInt(mm[1]),
                       elementIndex |-> parseInt(mm[2])])
        ELSE Thrown(InvalidReferenceFormat)

parseElementRefId(text) ==
    LET fm == frameMatch(text)
        mm == mainMatch(text)
    IN  IF fm # NoMatch
        THEN Returned([frameIndex |-> parseInt(fm[1]),
                       snapshotIndex |-> parseInt(fm[2]),
                       elementIndex |-> parseInt(fm[3])])
        ELSE IF mm # NoMatch
        THEN Returned([snapshotIndex |-> parseInt(mm[1]),
                       elementIndex |-> parseInt(mm[2])])
        ELSE Thrown(InvalidReferenceFormat)

----------------------------------------------------------------------------
(* ReferenceCodec: the id template of the simplifiers *)

\* the id template counting from zero: `${prefix}e${index}`
elementIdZeroBased(prefix, index) == prefix \o <<"e">> \o NumToStr(index)

\* `${prefix}e${index + 1}`
elementId(prefix, index) == prefix \o <<"e">> \o NumToStr(index + 1)

\* "no frame index" (the main frame), kept apart from every frame index >= 0
Absent == 0 - 1

\* the prefixes callers pass: 's<S>' for the main frame, 'f<F>s<S>' for frame F
framePrefix(frame, snapshot) ==
    IF frame = Absent THEN <<"s">> \o NumToStr(snapshot)
    ELSE <<"f">> \o NumToStr(frame) \o <<"s">> \o NumToStr(snapshot)

\* the ReferenceId tuple, with no frameIndex field when the frame is absent
ReferenceId(frame, snapshot, element) ==
    IF frame = Absent THEN [snapshotIndex |-> snapshot, elementIndex |-> element]
    ELSE [frameIndex |-> frame, snapshotIndex |-> snapshot, elementIndex |-> element]

----------------------------------------------------------------------------
(* Raw accessibility trees *)

\* A raw node. An absent, undefined or empty field is the empty string (role),
\* the empty sequence (name, value, description), FALSE or 0: all are falsy
\* in the code's truth tests. path is the node's place in the raw tree (the
\* 0-based child indexes from the root); the code never reads it.
RawNode(label, children) ==
    [role |-> label.role, name |-> label.name, value |-> label.value,
     description |-> label.description,
     selected |-> label.selected, checked |-> label.checked,
     disabled |-> label.disabled, required |-> label.required,
     focused |-> label.focused, level |-> label.level,
     children |-> children, path |-> <<>>]

Plain(role, name, value) ==
    [role |-> role, name |-> name, value |-> value, description |-> <<>>,
     selected |-> FALSE, checked |-> FALSE, disabled |-> FALSE,
     required |-> FALSE, focused |-> FALSE, level |-> 0]

\* a node with no role and no name, {} in the tests
AnonymousLabel == Plain("", <<>>, <<>>)

ButtonLabel == Plain("button", <<"O", "k">>, <<>>)

\* a structural role without a name
GroupLabel == Plain("group", <<>>, <<>>)

\* a name and a value but no role
NamedOnlyLabel == Plain("", <<"O", "k">>, <<"v">>)

Labels == {AnonymousLabel, ButtonLabel, GroupLabel, NamedOnlyLabel}

\* page.accessibility.snapshot() resolving to null
NullTree == [settled |-> "null"]

\* no tree at all: the argument is undefined
UndefinedTree == [settled |-> "undefined"]

RECURSIVE TreesOfSize(_, _)
RECURSIVE ForestsOfSize(_, _)
\* the raw trees of exactly n nodes
TreesOfSize(labels, n) ==
    {RawNode(l, f) : l \in labels, f \in ForestsOfSize(labels, n - 1)}

\* the child lists of n nodes in all
ForestsOfSize(labels, n) ==
    IF n = 0 THEN {<<>>}
    ELSE UNION {{<<t>> \o f : t \in TreesOfSize(labels, j), f \in ForestsOfSize(labels, n - j)} :
                   j \in 1..n}

RECURSIVE WithPaths(_, _)
WithPaths(node, path) ==
    [node EXCEPT !.path = path,
                 !.children = [i \in 1..Len(node.children) |->
                                  WithPaths(node.children[i], Append(path, i - 1))]]

RawTrees(labels, n) ==
    {WithPaths(t, <<>>) : t \in UNION {TreesOfSize(labels, k) : k \in 1..n}}

\* the tree with the node at path given another label (a DOM change)
RECURSIVE Relabel(_, _, _)
Relabel(node, path, label) ==
    IF path = <<>>
    THEN [node EXCEPT !.role = label.role, !.name = label.name, !.value = label.value]
    ELSE [node EXCEPT !.children[Head(path) + 1] = Relabel(@, Tail(path), label)]

\* the raw nodes of a tree, in pre-order
RECURSIVE RawNodes(_)
RECURSIVE RawNodesOfAll(_)
RawNodes(node) == <<node>> \o RawNodesOfAll(node.children)

RawNodesOfAll(nodes) ==
    IF nodes = <<>> THEN <<>> ELSE RawNodes(Head(nodes)) \o RawNodesOfAll(Tail(nodes))

----------------------------------------------------------------------------
(* TreeSimplifier: simplifyNode and formatAccessibilityTreeToYaml *)

LAYOUT_ROLES == {"generic container", "group", "paragraph", "list", "listitem"}

\* simplifyNode returning null
Null == [null |-> TRUE]

\* simplifyNode handing its own prefix, not its id, down to its children
RECURSIVE simplifyNodeFlatIds(_, _, _)
simplifyNodeFlatIds(node, prefix, index) ==
    IF node.role = "" /\ node.name = <<>> /\ node.role \notin LAYOUT_ROLES
    THEN Null
    ELSE LET mapped == [i \in 1..Len(node.children) |->
                           simplifyNodeFlatIds(node.children[i], prefix, i - 1)]
         IN  [id |-> elementId(prefix, index),
              role |-> IF node.role # "" THEN node.role ELSE "unknown",
              name |-> node.name,
              value |-> node.value,
              children |-> SelectSeq(mapped, LAMBDA c : c # Null),
              src |-> node.path]

\* simplifyNode filtering the children before it numbers them:
\* node.children.filter(...).map((child, i) => ...)
RECURSIVE simplifyNodeFilterFirst(_, _, _)
simplifyNodeFilterFirst(node, prefix, index) ==
    IF node.role = "" /\ node.name = <<>> /\ node.role \notin LAYOUT_ROLES
    THEN Null
    ELSE LET id == elementId(prefix, index)
             kept == SelectSeq(node.children,
                               LAMBDA c : ~(c.role = "" /\ c.name = <<>>))
         IN  [id |-> id,
              role |-> IF node.role # "" THEN node.role ELSE "unknown",
              name |-> node.name,
              value |-> node.value,
              children |-> [i \in 1..Len(kept) |->
                               simplifyNodeFilterFirst(kept[i], id, i - 1)],
              src |-> node.path]

\* A simplified node. A property the code leaves unset is empty here; src is
\* the path of the raw node it was made from, which the code does not keep.
RECURSIVE simplifyNode(_, _, _)
simplifyNode(node, prefix, index) ==
    IF node.role = "" /\ node.name = <<>> /\ node.role \notin LAYOUT_ROLES
    THEN Null
    ELSE LET id == elementId(prefix, index)
             mapped == [i \in 1..Len(node.children) |->
                           simplifyNode(node.children[i], id, i - 1)]
         IN  [id |-> id,
              role |-> IF node.role # "" THEN node.role ELSE "unknown",
              name |-> node.name,
              value |-> node.value,
              children |-> SelectSeq(mapped, LAMBDA c : c # Null),
              src |-> node.path]

\* yaml.dump(simplifiedTree, {indent: 2, noRefs: true, lineWidth: -1}): one
\* line per property that is set, in insertion order; a child starts with "- "
\* two columns deeper than the "children:" line
RECURSIVE YamlDump(_, _, _)
RECURSIVE YamlDumpAll(_, _)
YamlDump(node, indent, item) ==
    LET first == <<[indent |-> indent, item |-> item, key |-> "id", chars |-> node.id]>>
        role == <<[indent |-> indent, item |-> FALSE, key |-> "role", text |-> node.role]>>
        name == IF node.name # <<>>
                THEN <<[indent |-> indent, item |-> FALSE, key |-> "name", chars |-> node.name]>>
                ELSE <<>>
        value == IF node.value # <<>>
                 THEN <<[indent |-> indent, item |-> FALSE, key |-> "value", chars |-> node.value]>>
                 ELSE <<>>
        children == IF node.children # <<>>
                    THEN <<[indent |-> indent, item |-> FALSE, key |-> "children"]>>
                         \o YamlDumpAll(node.children, indent + 1)
                    ELSE <<>>
    IN  first \o role \o name \o value \o children

YamlDumpAll(nodes, indent) ==
    IF nodes = <<>> THEN <<>>
    ELSE YamlDump(Head(nodes), indent, TRUE) \o YamlDumpAll(Tail(nodes), indent)

EmptyText == <<>>

\* formatAccessibilityTreeToYaml without its test of simplifiedTree: yaml.dump
\* is handed the null and renders it as the line "null"
formatAccessibilityTreeToYamlDumpingNull(accessibilityTree, prefix) ==
    IF accessibilityTree \in {NullTree, UndefinedTree}
    THEN [tree |-> Null, text |-> EmptyText]
    ELSE LET simplifiedTree == simplifyNode(accessibilityTree, prefix, 0)
         IN  IF simplifiedTree = Null
             THEN [tree |-> Null,
                   text |-> <<[indent |-> 0, item |-> FALSE, key |-> "null"]>>]
             ELSE [tree |-> simplifiedTree, text |-> YamlDump(simplifiedTree, 0, FALSE)]

\* formatAccessibilityTreeToYaml(accessibilityTree, framePrefix): the
\* simplified tree (Null when there is none) and the text
formatAccessibilityTreeToYaml(accessibilityTree, prefix) ==
    IF accessibilityTree \in {NullTree, UndefinedTree}
    THEN [tree |-> Null, text |-> EmptyText]
    ELSE LET simplifiedTree == simplifyNode(accessibilityTree, prefix, 0)
         IN  IF simplifiedTree = Null
             THEN [tree |-> Null, text |-> EmptyText]
             ELSE [tree |-> simplifiedTree, text |-> YamlDump(simplifiedTree, 0, FALSE)]

----------------------------------------------------------------------------
(* TreeSimplifier: processSnapshot and formatAsYaml *)

RECURSIVE processSnapshot(_, _, _)
processSnapshot(node, refPrefix, index) ==
    LET ref == elementId(refPrefix, index)
    IN  [role |-> IF node.role # "" THEN node.role ELSE "unknown",
         ref |-> ref,
         name |-> node.name,
         value |-> node.value,
         description |-> node.description,
         selected |-> node.selected,
         checked |-> node.checked,
         disabled |-> node.disabled,
         required |-> node.required,
         focused |-> node.focused,
         level |-> IF node.role = "heading" /\ node.level # 0 THEN node.level ELSE 0,
         children |-> [i \in 1..Len(node.children) |->
                          processSnapshot(node.children[i], ref, i - 1)],
         src |-> node.path]

\* str.replace(/c/g, replacement)
RECURSIVE ReplaceAll(_, _, _)
ReplaceAll(str, c, replacement) ==
    IF str = <<>> THEN <<>>
    ELSE (IF Head(str) = c THEN replacement ELSE <<Head(str)>>)
         \o ReplaceAll(Tail(str), c, replacement)

\* escapeString without its replacement of the double quote
escapeStringKeepingQuotes(str) ==
    LET a == ReplaceAll(str, "\\", <<"\\", "\\">>)
        c == ReplaceAll(a, "\n", <<"\\", "n">>)
        d == ReplaceAll(c, "\r", <<"\\", "r">>)
    IN  ReplaceAll(d, "\t", <<"\\", "t">>)

\* escapeString doubling the backslashes last, after it has written its own
escapeStringBackslashLast(str) ==
    LET b == ReplaceAll(str, "\"", <<"\\", "\"">>)
        c == ReplaceAll(b, "\n", <<"\\", "n">>)
        d == ReplaceAll(c, "\r", <<"\\", "r">>)
        e == ReplaceAll(d, "\t", <<"\\", "t">>)
    IN  ReplaceAll(e, "\\", <<"\\", "\\">>)

escapeString(str) ==
    LET a == ReplaceAll(str, "\\", <<"\\", "\\">>)
        b == ReplaceAll(a, "\"", <<"\\", "\"">>)
        c == ReplaceAll(b, "\n", <<"\\", "n">>)
        d == ReplaceAll(c, "\r", <<"\\", "r">>)
    IN  ReplaceAll(d, "\t", <<"\\", "t">>)

\* the attributes with ref pushed before level
AttributesRefBeforeLevel(node) ==
    (IF node.value # <<>> THEN <<[key |-> "value", chars |-> escapeString(node.value)]>> ELSE <<>>)
    \o (IF node.selected THEN <<[key |-> "selected"]>> ELSE <<>>)
    \o (IF node.checked THEN <<[key |-> "checked"]>> ELSE <<>>)
    \o (IF node.disabled THEN <<[key |-> "disabled"]>> ELSE <<>>)
    \o (IF node.required THEN <<[key |-> "required"]>> ELSE <<>>)
    \o (IF node.focused THEN <<[key |-> "focused"]>> ELSE <<>>)
    \o <<[key |-> "ref", chars |-> node.ref]>>
    \o (IF node.level # 0 THEN <<[key |-> "level", number |-> node.level]>> ELSE <<>>)

\* the bracketed attributes of one line, in the order they are pushed
Attributes(node) ==
    (IF node.value # <<>> THEN <<[key |-> "value", chars |-> escapeString(node.value)]>> ELSE <<>>)
    \o (IF node.selected THEN <<[key |-> "selected"]>> ELSE <<>>)
    \o (IF node.checked THEN <<[key |-> "checked"]>> ELSE <<>>)
    \o (IF node.disabled THEN <<[key |-> "disabled"]>> ELSE <<>>)
    \o (IF node.required THEN <<[key |-> "required"]>> ELSE <<>>)
    \o (IF node.focused THEN <<[key |-> "focused"]>> ELSE <<>>)
    \o (IF node.level # 0 THEN <<[key |-> "level", number |-> node.level]>> ELSE <<>>)
    \o <<[key |-> "ref", chars |-> node.ref]>>

\* formatAsYaml(node, indent): the lines that lines.join('\n') joins
RECURSIVE formatAsYaml(_, _)
RECURSIVE formatAllAsYaml(_, _)
\* formatAsYaml testing node.children only for being there: a childless node
\* that carries an empty children array gets the colon too
formatAsYamlColonAlways(node, indent) ==
    <<[indent |-> indent,
       role |-> node.role,
       name |-> escapeString(node.name),
       attributes |-> Attributes(node),
       colon |-> TRUE]>>
    \o formatAllAsYaml(node.children, indent + 1)

formatAsYaml(node, indent) ==
    <<[indent |-> indent,
       role |-> node.role,
       name |-> escapeString(node.name),
       attributes |-> Attributes(node),
       colon |-> node.children # <<>>]>>
    \o formatAllAsYaml(node.children, indent + 1)

formatAllAsYaml(nodes, indent) ==
    IF nodes = <<>> THEN <<>>
    ELSE formatAsYaml(Head(nodes), indent) \o formatAllAsYaml(Tail(nodes), indent)

\* the characters of the words the renderer writes: the role names in use,
\* the attribute keys and the note of an empty capture
Spelling ==
    ("button" :> <<"b", "u", "t", "t", "o", "n">>)
    @@ ("heading" :> <<"h", "e", "a", "d", "i", "n", "g">>)
    @@ ("unknown" :> <<"u", "n", "k", "n", "o", "w", "n">>)
    @@ ("document" :> <<"d", "o", "c", "u", "m", "e", "n", "t">>)
    @@ ("link" :> <<"l", "i", "n", "k">>)
    @@ ("group" :> <<"g", "r", "o", "u", "p">>)
    @@ ("value" :> <<"v", "a", "l", "u", "e">>)
    @@ ("selected" :> <<"s", "e", "l", "e", "c", "t", "e", "d">>)
    @@ ("checked" :> <<"c", "h", "e", "c", "k", "e", "d">>)
    @@ ("disabled" :> <<"d", "i", "s", "a", "b", "l", "e", "d">>)
    @@ ("required" :> <<"r", "e", "q", "u", "i", "r", "e", "d">>)
    @@ ("focused" :> <<"f", "o", "c", "u", "s", "e", "d">>)
    @@ ("level" :> <<"l", "e", "v", "e", "l">>)
    @@ ("ref" :> <<"r", "e", "f">>)
    @@ ("No accessibility data available" :>
          <<"N", "o", " ", "a", "c", "c", "e", "s", "s", "i", "b", "i", "l", "i", "t",
            "y", " ", "d", "a", "t", "a", " ", "a", "v", "a", "i", "l", "a", "b", "l", "e">>)

Chars(word) == Spelling[word]

\* '  '.repeat(indent)
RECURSIVE Repeat(_, _)
Repeat(str, count) == IF count = 0 THEN <<>> ELSE str \o Repeat(str, count - 1)

\* one entry of attributes as it was pushed
AttributeText(attribute) ==
    CASE attribute.key = "value" ->
            Chars("value") \o <<"=", "\"">> \o attribute.chars \o <<"\"">>
      [] attribute.key = "level" -> Chars("level") \o <<"=">> \o NumToStr(attribute.number)
      [] attribute.key = "ref" -> Chars("ref") \o <<"=">> \o attribute.chars
      [] OTHER -> Chars(attribute.key)

\* attributes.join('] [')
RECURSIVE JoinAttributes(_)
JoinAttributes(attributes) ==
    IF Len(attributes) = 1 THEN AttributeText(attributes[1])
    ELSE AttributeText(Head(attributes)) \o <<"]", " ", "[">> \o JoinAttributes(Tail(attributes))

\* the string formatAsYaml builds in line
LineText(line) ==
    Repeat(<<" ", " ">>, line.indent) \o <<"-", " ">> \o Chars(line.role)
    \o (IF line.name # <<>> THEN <<" ", "\"">> \o line.name \o <<"\"">> ELSE <<>>)
    \o <<" ", "[">> \o JoinAttributes(line.attributes) \o <<"]">>
    \o (IF line.colon THEN <<":">> ELSE <<>>)
    \o (IF "note" \in DOMAIN line THEN <<" ">> \o Chars(line.note) ELSE <<>>)

\* lines.join('\n')
RECURSIVE JoinLines(_)
JoinLines(lines) ==
    IF lines = <<>> THEN <<>>
    ELSE IF Len(lines) = 1 THEN LineText(lines[1])
    ELSE LineText(Head(lines)) \o <<"\n">> \o JoinLines(Tail(lines))

\* "- document [ref=s1e1]: No accessibility data available"
NoAccessibilityData ==
    <<[indent |-> 0, role |-> "document", name |-> <<>>,
       attributes |-> <<[key |-> "ref", chars |-> <<"s", "1", "e", "1">>]>>,
       colon |-> TRUE, note |-> "No accessibility data available"]>>

\* generateAccessibilitySnapshot(page) of utils/accessibilitySnapshot.ts
generateAccessibilitySnapshotTs(snapshot) ==
    IF snapshot = NullTree
    THEN [tree |-> Null, text |-> NoAccessibilityData]
    ELSE LET processedSnapshot == processSnapshot(snapshot, <<"s", "1">>, 0)
         IN  [tree |-> processedSnapshot, text |-> formatAsYaml(processedSnapshot, 0)]

----------------------------------------------------------------------------
(* The capture entry points *)

\* a live page whose accessibility.snapshot() settles with the given outcome
Page(outcome) == [snapshot |-> outcome]

\* generateAccessibilitySnapshot(null)
NoPage == [page |-> "null"]

\* page.accessibility.snapshot() rejecting, and the message of its error
Rejected == [settled |-> "rejected"]

RejectionMessage == "Target closed"

ErrorText(message) == <<[error |-> message]>>

\* generateAccessibilitySnapshot without its test of page: reading
\* page.accessibility of null fails inside the try
generateAccessibilitySnapshotUntested(target, prefix) ==
    IF target = NoPage
    THEN [status |-> "returned", tree |-> Null,
          text |-> ErrorText("Cannot read properties of null")]
    ELSE IF target.snapshot = Rejected
    THEN [status |-> "returned", tree |-> Null, text |-> ErrorText(RejectionMessage)]
    ELSE IF target.snapshot = NullTree
    THEN [status |-> "returned", tree |-> Null,
          text |-> ErrorText("No accessibility tree available")]
    ELSE LET out == formatAccessibilityTreeToYaml(target.snapshot, prefix)
         IN  [status |-> "returned", tree |-> out.tree, text |-> out.text]

\* generateAccessibilitySnapshot(page, framePrefix) of browser/snapshot.js
generateAccessibilitySnapshot(target, prefix) ==
    IF target = NoPage
    THEN [status |-> "returned", tree |-> Null, text |-> ErrorText("No page provided")]
    ELSE IF target.snapshot = Rejected
    THEN [status |-> "returned", tree |-> Null, text |-> ErrorText(RejectionMessage)]
    ELSE IF target.snapshot = NullTree
    THEN [status |-> "returned", tree |-> Null,
          text |-> ErrorText("No accessibility tree available")]
    ELSE LET out == formatAccessibilityTreeToYaml(target.snapshot, prefix)
         IN  [status |-> "returned", tree |-> out.tree, text |-> out.text]

\* generateAccessibilitySnapshot(page) of utils/accessibilitySnapshot.ts: no
\* test of page and no try, so a failing snapshot() rejects the call
generateAccessibilitySnapshotOfPage(target) ==
    IF target = NoPage
    THEN [status |-> "thrown", tree |-> Null, text |-> ErrorText("TypeError")]
    ELSE IF target.snapshot = Rejected
    THEN [status |-> "thrown", tree |-> Null, text |-> ErrorText(RejectionMessage)]
    ELSE LET out == generateAccessibilitySnapshotTs(target.snapshot)
         IN  [status |-> "returned", tree |-> out.tree, text |-> out.text]

Call(impl, target, prefix, result) ==
    [impl |-> impl, page |-> target, prefix |-> prefix,
     status |-> result.status, tree |-> result.tree, text |-> result.text]

----------------------------------------------------------------------------
(* Resolver: findElementByRefId, isInteractiveElement, findElementInPage *)

LinkLabel == Plain("link", <<"G", "o">>, <<>>)

HeadingLabel == Plain("heading", <<"H">>, <<>>)

ResolverLabels == {ButtonLabel, LinkLabel, HeadingLabel}

interactiveRoles ==
    {"button", "link", "checkbox", "combobox", "menuitem",
     "menuitemcheckbox", "menuitemradio", "option", "radio",
     "scrollbar", "searchbox", "slider", "spinbutton", "switch",
     "tab", "textbox", "treeitem"}

\* String.prototype.toLowerCase on the role names in use
Lowered ==
    [r \in {"Button", "BUTTON", "Link", "Heading", "RootWebArea"} |->
        CASE r = "Button" -> "button"
          [] r = "BUTTON" -> "button"
          [] r = "Link" -> "link"
          [] r = "Heading" -> "heading"
          [] r = "RootWebArea" -> "rootwebarea"]

toLowerCase(str) == IF str \in DOMAIN Lowered THEN Lowered[str] ELSE str

isInteractiveElement(node) == node.role # "" /\ toLowerCase(node.role) \in interactiveRoles

\* findElementByRefId / findElementInPage returning null
NullResult == [null |-> TRUE]

\* no targetRole argument
NoRole == ""

\* traverse(node) inside findElementByRefId, with the targetRole it closes over
RECURSIVE traverse(_, _)
RECURSIVE traverseChildren(_, _)
RECURSIVE traverseChildrenLast(_, _)
\* traverse walking the children from the last to the first
traverseChildrenLast(children, targetRole) ==
    IF children = <<>> THEN NullResult
    ELSE LET rest == traverseChildrenLast(Tail(children), targetRole)
         IN  IF rest # NullResult THEN rest
             ELSE traverse(Head(children), targetRole)

traverse(node, targetRole) ==
    IF targetRole # NoRole /\ node.role # ""
           /\ toLowerCase(node.role) = toLowerCase(targetRole)
    THEN node
    ELSE IF targetRole = NoRole /\ isInteractiveElement(node)
    THEN node
    ELSE traverseChildren(node.children, targetRole)

\* for (const child of node.children) { result = traverse(child); if (result) return result }
traverseChildren(children, targetRole) ==
    IF children = <<>> THEN NullResult
    ELSE LET result == traverse(Head(children), targetRole)
         IN  IF result # NullResult THEN result
             ELSE traverseChildren(Tail(children), targetRole)

\* findElementByRefId falling back to any interactive element itself when no
\* node has the target role
findElementByRefIdFallingBack(tree, ref, targetRole) ==
    IF tree = NullTree \/ ref = <<>> THEN NullResult
    ELSE IF traverse(tree, targetRole) # NullResult THEN traverse(tree, targetRole)
    ELSE traverse(tree, NoRole)

\* findElementByRefId looking at the reference: only the reference of the
\* first element finds anything
findElementByRefIdOfFirst(tree, ref, targetRole) ==
    IF tree = NullTree \/ ref = <<>> THEN NullResult
    ELSE IF parseElementRefId(ref).status = "returned"
            /\ parseElementRefId(ref).value.elementIndex # 1
    THEN NullResult
    ELSE traverse(tree, targetRole)

findElementByRefId(tree, ref, targetRole) ==
    IF tree = NullTree \/ ref = <<>> THEN NullResult
    ELSE traverse(tree, targetRole)

\* a live page: page.frames(), each frame given by what its
\* accessibility.snapshot() settles with
FramedPage(pageFrames) == [frames |-> pageFrames]

\* findElementInPage without the .catch(() => null) on the readiness wait: a
\* wait that times out rejects into the function's own catch, which returns null
findElementInPageAwaitingWait(thePage, ref, waited) ==
    IF thePage = NoPage \/ ref = <<>>
    THEN [status |-> "returned", value |-> NullResult, steps |-> <<>>]
    ELSE LET parsed == parseElementRefId(ref)
             tree == thePage.frames[1]
             upTo == <<"parse", "frames", waited>>
         IN  IF parsed.status = "thrown"
             THEN [status |-> "thrown", error |-> parsed.error, steps |-> <<"parse">>]
             ELSE IF waited = "wait timed out"
             THEN [status |-> "returned", value |-> NullResult, steps |-> upTo]
             ELSE IF tree \in {Rejected, NullTree}
             THEN [status |-> "returned", value |-> NullResult,
                   steps |-> Append(upTo, "snapshot")]
             ELSE LET button == findElementByRefId(tree, ref, "button")
                      element == IF button # NullResult THEN button
                                 ELSE findElementByRefId(tree, ref, NoRole)
                  IN  [status |-> "returned",
                       value |-> IF element # NullResult
                                 THEN [frame |-> 0, element |-> element]
                                 ELSE NullResult,
                       steps |-> Append(upTo, "snapshot")]

\* findElementInPage(page, refId). waited is how
\* targetFrame.waitForSelector('*', {timeout: 2000}) settles. The frame of the
\* result is its index in page.frames(); page.mainFrame() is frame 0.
findElementInPage(thePage, ref, waited) ==
    IF thePage = NoPage \/ ref = <<>>
    THEN [status |-> "returned", value |-> NullResult, steps |-> <<>>]
    ELSE LET parsed == parseElementRefId(ref)
             pageFrames == thePage.frames
         IN  IF parsed.status = "thrown"
             THEN [status |-> "thrown", error |-> parsed.error, steps |-> <<"parse">>]
             ELSE LET r == parsed.value
                      target == IF "frameIndex" \in DOMAIN r /\ r.frameIndex < Len(pageFrames)
                                THEN r.frameIndex
                                ELSE 0
                      tree == pageFrames[target + 1]
                      upTo == <<"parse", "frames", waited>>
                  IN  IF tree = Rejected
                      THEN [status |-> "returned", value |-> NullResult,
                            steps |-> Append(upTo, "snapshot rejected")]
                      ELSE IF tree = NullTree
                      THEN [status |-> "returned", value |-> NullResult,
                            steps |-> Append(upTo, "snapshot")]
                      ELSE LET button == findElementByRefId(tree, ref, "button")
                               element == IF button # NullResult THEN button
                                          ELSE findElementByRefId(tree, ref, NoRole)
                           IN  [status |-> "returned",
                                value |-> IF element # NullResult
                                          THEN [frame |-> target, element |-> element]
                                          ELSE NullResult,
                                steps |-> Append(upTo, "snapshot")]

----------------------------------------------------------------------------
(* Specification of the codec *)

NoTuple == [given |-> FALSE]

CodecIdle ==
    /\ refId = <<>>
    /\ parseResult = NotCalled
    /\ encodedFrom = NoTuple

SnapshotIdle ==
    /\ rawTree = NullTree
    /\ captures = <<>>
    /\ domChanges = 0

ResolverIdle ==
    /\ page = NoPage
    /\ resolution = NotCalled
    /\ located = NotCalled
    /\ batch = NotCalled

ServerIdle ==
    /\ connection = NotCalled
    /\ navigation = NotCalled
    /\ client = NotCalled
    /\ server = NotCalled

CodecInit == CodecIdle /\ SnapshotIdle /\ ResolverIdle /\ ServerIdle

Fresh == refId = <<>> /\ parseResult = NotCalled /\ encodedFrom = NoTuple

\* a caller supplies a reference string of its own
ReceiveRefId ==
    /\ Fresh
    /\ \E text \in StringsUpTo(MaxRefLen) : refId' = text
    /\ UNCHANGED <<parseResult, encodedFrom, snapshotVars, resolverVars, serverVars>>

\* a simplifier stamps the root of a capture: the id of (frame, snapshot, element)
EncodeElementId ==
    /\ Fresh
    /\ \E frame \in {Absent} \cup (0..MaxIndex), snapshot \in 1..MaxIndex, element \in 1..MaxIndex :
          /\ refId' = elementId(framePrefix(frame, snapshot), element - 1)
          /\ encodedFrom' = [given |-> TRUE, tuple |-> ReferenceId(frame, snapshot, element)]
    /\ UNCHANGED <<parseResult, snapshotVars, resolverVars, serverVars>>

\* the reference is decoded
ParseElementRefId ==
    /\ parseResult = NotCalled
    /\ parseResult' = parseElementRefId(refId)
    /\ UNCHANGED <<refId, encodedFrom, snapshotVars, resolverVars, serverVars>>

CodecNext == ReceiveRefId \/ EncodeElementId \/ ParseElementRefId

CodecSpec == CodecInit /\ [][CodecNext]_vars

----------------------------------------------------------------------------
(* Specification of one capture *)

MainPrefix == framePrefix(Absent, 1)

\* how targetFrame.waitForSelector('*', {timeout: 2000}) can settle
WaitOutcomes == {"waited", "wait timed out"}

Prefixes == {MainPrefix, framePrefix(0, 1)}

SimplifyInit ==
    /\ CodecIdle
    /\ ServerIdle
    /\ ResolverIdle
    /\ rawTree \in RawTrees(Labels, MaxNodes) \cup {NullTree}
    /\ captures = <<>>
    /\ domChanges = 0

\* CaptureJs stamping each capture with a module-level snapshot counter
CaptureJsCounting ==
    /\ \E prefix \in Prefixes :
          LET stamped == SubSeq(prefix, 1, Len(prefix) - 1) \o NumToStr(Len(captures) + 1)
          IN  captures' = Append(captures,
                  Call("js", Page(rawTree), prefix,
                       generateAccessibilitySnapshot(Page(rawTree), stamped)))
    /\ UNCHANGED <<codecVars, rawTree, domChanges, resolverVars, serverVars>>

\* browser/snapshot.js captures the live page
CaptureJs ==
    /\ \E prefix \in Prefixes :
          captures' = Append(captures,
              Call("js", Page(rawTree), prefix,
                   generateAccessibilitySnapshot(Page(rawTree), prefix)))
    /\ UNCHANGED <<codecVars, rawTree, domChanges, resolverVars, serverVars>>

\* browser/snapshot.js is called without a page
CaptureJsNoPage ==
    /\ captures' = Append(captures,
          Call("js", NoPage, MainPrefix, generateAccessibilitySnapshot(NoPage, MainPrefix)))
    /\ UNCHANGED <<codecVars, rawTree, domChanges, resolverVars, serverVars>>

\* browser/snapshot.js captures a page whose snapshot() rejects
CaptureJsRejected ==
    /\ captures' = Append(captures,
          Call("js", Page(Rejected), MainPrefix,
               generateAccessibilitySnapshot(Page(Rejected), MainPrefix)))
    /\ UNCHANGED <<codecVars, rawTree, domChanges, resolverVars, serverVars>>

\* utils/accessibilitySnapshot.ts captures the live page
CaptureTs ==
    /\ captures' = Append(captures,
          Call("ts", Page(rawTree), MainPrefix,
               generateAccessibilitySnapshotOfPage(Page(rawTree))))
    /\ UNCHANGED <<codecVars, rawTree, domChanges, resolverVars, serverVars>>

\* utils/accessibilitySnapshot.ts captures a page whose snapshot() rejects
CaptureTsRejected ==
    /\ captures' = Append(captures,
          Call("ts", Page(Rejected), MainPrefix,
               generateAccessibilitySnapshotOfPage(Page(Rejected))))
    /\ UNCHANGED <<codecVars, rawTree, domChanges, resolverVars, serverVars>>

\* the serializer is called by itself, on the page's raw tree or on undefined
\* (logged with the tree it was handed in the place of the page's snapshot)
FormatAccessibilityTreeToYaml ==
    /\ \E accessibilityTree \in {rawTree, UndefinedTree}, prefix \in Prefixes :
          LET out == formatAccessibilityTreeToYaml(accessibilityTree, prefix)
          IN  captures' = Append(captures,
                  Call("yaml", Page(accessibilityTree), prefix,
                       [status |-> "returned", tree |-> out.tree, text |-> out.text]))
    /\ UNCHANGED <<codecVars, rawTree, domChanges, resolverVars, serverVars>>

SimplifyNext ==
    /\ captures = <<>>
    /\ (CaptureJs \/ CaptureJsNoPage \/ CaptureJsRejected \/ CaptureTs \/ CaptureTsRejected
           \/ FormatAccessibilityTreeToYaml)

SimplifySpec == SimplifyInit /\ [][SimplifyNext]_vars

----------------------------------------------------------------------------
(* Specification of repeated captures of one page *)

IsAnonymous(node) == node.role = "" /\ node.name = <<>>

RecaptureInit ==
    /\ CodecIdle
    /\ ServerIdle
    /\ ResolverIdle
    /\ rawTree \in RawTrees({AnonymousLabel, ButtonLabel}, MaxNodes)
    /\ captures = <<>>
    /\ domChanges = 0

\* a reference to the page's root is resolved between two captures
ResolveBetweenCaptures ==
    /\ resolution = NotCalled
    /\ 0 < Len(captures) /\ Len(captures) < MaxCaptures
    /\ \E waited \in WaitOutcomes :
          resolution' = findElementInPage(FramedPage(<<rawTree>>),
                                          elementId(MainPrefix, 0), waited)
    /\ UNCHANGED <<codecVars, snapshotVars, page, located, batch, serverVars>>

RecaptureNext ==
    \/ Len(captures) < MaxCaptures /\ (CaptureJs \/ CaptureTs)
    \/ ResolveBetweenCaptures

RecaptureSpec == RecaptureInit /\ [][RecaptureNext]_vars

----------------------------------------------------------------------------
(* Specification of captures of a page before and after its DOM changes *)

\* one element of the page gains or loses its role and name
DomChange ==
    /\ domChanges < MaxDomChanges
    /\ \E i \in 1..Len(RawNodes(rawTree)) :
          LET node == RawNodes(rawTree)[i]
          IN  rawTree' = Relabel(rawTree, node.path,
                                 IF IsAnonymous(node) THEN ButtonLabel ELSE AnonymousLabel)
    /\ domChanges' = domChanges + 1
    /\ UNCHANGED <<codecVars, captures, resolverVars, serverVars>>

\* the captures of a run are all taken the same way: one implementation, one prefix
SameWay ==
    \A k \in 1..Len(captures) :
        captures[k].impl = captures[1].impl /\ captures[k].prefix = captures[1].prefix

\* the page is not what the last capture saw
Changed == IF captures = <<>> THEN TRUE ELSE captures[Len(captures)].page # Page(rawTree)

\* a page is captured, changes, and is captured again the same way (a change
\* before the first capture only makes it another page of RecaptureInit, and
\* capturing an unchanged page again is left to RecaptureSpec)
MutationNext ==
    \/ Len(captures) < MaxCapturesAround /\ Changed /\ CaptureJs /\ SameWay'
    \/ Len(captures) < MaxCapturesAround /\ Changed /\ CaptureTs /\ SameWay'
    \/ captures # <<>> /\ DomChange

MutationSpec == RecaptureInit /\ [][MutationNext]_vars

----------------------------------------------------------------------------
(* Specification of the resolver *)

\* what one frame's accessibility.snapshot() can settle with
FrameOutcomes == RawTrees(ResolverLabels, MaxFrameNodes) \cup {NullTree, Rejected}

RECURSIVE FrameLists(_)
FrameLists(n) ==
    IF n = 0 THEN {<<>>}
    ELSE {Append(fs, t) : fs \in FrameLists(n - 1), t \in FrameOutcomes}

\* a page has a main frame and up to MaxFrames - 1 frames more
Pages == UNION {FrameLists(n) : n \in 1..MaxFrames}

\* the references handed to the resolver: none, well-formed ones for the main
\* frame and for frames 0..MaxFrames, and malformed ones
ResolverRefIds ==
    {<<>>, <<"s", "1">>, <<"f", "0", "s", "1">>}
    \cup {elementId(framePrefix(f, s), e - 1) :
             f \in {Absent} \cup (0..MaxFrames), s \in 1..2, e \in 1..2}

ResolveInit ==
    /\ ServerIdle
    /\ SnapshotIdle
    /\ parseResult = NotCalled
    /\ encodedFrom = NoTuple
    /\ refId \in ResolverRefIds
    /\ (page = NoPage \/ \E pageFrames \in Pages : page = FramedPage(pageFrames))
    /\ resolution = NotCalled
    /\ located = NotCalled
    /\ batch = NotCalled

FindElementInPage ==
    /\ resolution = NotCalled
    /\ \E waited \in WaitOutcomes : resolution' = findElementInPage(page, refId, waited)
    /\ UNCHANGED <<codecVars, snapshotVars, page, located, batch, serverVars>>

ResolveNext == FindElementInPage

ResolveSpec == ResolveInit /\ [][ResolveNext]_vars

----------------------------------------------------------------------------
(* Specification of the matching strategy on one frame *)

\* a role spelled with a capital, which toLowerCase folds
CapitalButtonLabel == Plain("Button", <<"O", "k">>, <<>>)

LocateLabels == ResolverLabels \cup {CapitalButtonLabel}

\* the targetRole arguments: none, the resolver's 'button', and others
TargetRoles == {NoRole, "button", "BUTTON", "heading"}

\* the refId arguments: the empty string and the root of the main frame
LocateRefIds == {<<>>, elementId(MainPrefix, 0)}

LocateInit ==
    /\ ServerIdle
    /\ SnapshotIdle
    /\ parseResult = NotCalled
    /\ encodedFrom = NoTuple
    /\ refId \in LocateRefIds
    /\ \E tree \in RawTrees(LocateLabels, MaxLocateNodes) \cup {NullTree} :
          page = FramedPage(<<tree>>)
    /\ resolution = NotCalled
    /\ located = NotCalled
    /\ batch = NotCalled

\* findElementByRefId(tree, refId, targetRole) on the tree of the main frame
FindElementByRefId ==
    /\ located = NotCalled
    /\ \E targetRole \in TargetRoles :
          located' = [status |-> "returned",
                      tree |-> page.frames[1],
                      refId |-> refId,
                      targetRole |-> targetRole,
                      value |-> findElementByRefId(page.frames[1], refId, targetRole)]
    /\ UNCHANGED <<codecVars, snapshotVars, page, resolution, batch, serverVars>>

LocateNext ==
    /\ located = NotCalled
    /\ resolution = NotCalled
    /\ (FindElementByRefId \/ FindElementInPage)

LocateSpec == LocateInit /\ [][LocateNext]_vars

----------------------------------------------------------------------------
(* FrameEnumerator: getAllFrameTrees *)

\* Promise.allSettled(frames.map(async frame => ({frame, tree}))): one result
\* for each frame, in the order of frames, whatever the order of completion
allSettled(pageFrames, completionOrder) ==
    [i \in 1..Len(pageFrames) |->
        IF pageFrames[i] = Rejected
        THEN [status |-> "rejected", reason |-> RejectionMessage]
        ELSE [status |-> "fulfilled",
              value |-> [frame |-> i - 1, tree |-> pageFrames[i]]]]

\* Promise.all in the place of Promise.allSettled: one rejection rejects the batch
gatherAll(pageFrames, completionOrder) ==
    IF \E i \in 1..Len(pageFrames) : pageFrames[i] = Rejected
    THEN Thrown(RejectionMessage)
    ELSE LET values == [i \in 1..Len(pageFrames) |-> [frame |-> i - 1, tree |-> pageFrames[i]]]
         IN  Returned(SelectSeq(values, LAMBDA v : v.tree # NullTree))

\* the results collected as the captures complete
gatherAsCompleted(pageFrames, completionOrder) ==
    LET results == [k \in 1..Len(completionOrder) |->
                       allSettled(pageFrames, completionOrder)[completionOrder[k] + 1]]
        fulfilled == SelectSeq(results, LAMBDA r : r.status = "fulfilled")
        values == [k \in 1..Len(fulfilled) |-> fulfilled[k].value]
    IN  Returned(SelectSeq(values, LAMBDA v : v.tree # NullTree))

\* results.filter(fulfilled).map(value).filter(tree !== null)
gather(pageFrames, completionOrder) ==
    LET results == allSettled(pageFrames, completionOrder)
        fulfilled == SelectSeq(results, LAMBDA r : r.status = "fulfilled")
        values == [k \in 1..Len(fulfilled) |-> fulfilled[k].value]
    IN  Returned(SelectSeq(values, LAMBDA v : v.tree # NullTree))

\* what one frame's capture can settle with in a batch
BatchOutcomes == RawTrees(ResolverLabels, 1) \cup {NullTree, Rejected}

RECURSIVE BatchFrameLists(_)
BatchFrameLists(n) ==
    IF n = 0 THEN {<<>>}
    ELSE {Append(fs, t) : fs \in BatchFrameLists(n - 1), t \in BatchOutcomes}

BatchInit ==
    /\ CodecIdle
    /\ ServerIdle
    /\ SnapshotIdle
    /\ (page = NoPage \/ \E n \in 1..MaxBatchFrames :
                            \E pageFrames \in BatchFrameLists(n) : page = FramedPage(pageFrames))
    /\ resolution = NotCalled
    /\ located = NotCalled
    /\ batch = NotCalled

\* getAllFrameTrees(null) returns [] at once
GetAllFrameTreesNoPage ==
    /\ batch = NotCalled
    /\ page = NoPage
    /\ batch' = [status |-> "returned", pending |-> {}, completed |-> <<>>,
                 result |-> Returned(<<>>)]
    /\ UNCHANGED <<codecVars, snapshotVars, page, resolution, located, serverVars>>

\* getAllFrameTrees(page) starts one capture for each frame of page.frames()
GetAllFrameTrees ==
    /\ batch = NotCalled
    /\ page # NoPage
    /\ batch' = [status |-> "running", pending |-> 0..(Len(page.frames) - 1),
                 completed |-> <<>>]
    /\ UNCHANGED <<codecVars, snapshotVars, page, resolution, located, serverVars>>

\* the capture of one frame settles: frame.accessibility.snapshot() resolves
\* or rejects
SettleCapture ==
    /\ batch.status = "running"
    /\ \E frame \in batch.pending :
          batch' = [batch EXCEPT !.pending = @ \ {frame},
                                 !.completed = Append(@, frame)]
    /\ UNCHANGED <<codecVars, snapshotVars, page, resolution, located, serverVars>>

\* all captures have settled: Promise.allSettled resolves and the function returns
ReturnFrameTrees ==
    /\ batch.status = "running"
    /\ batch.pending = {}
    /\ batch' = [status |-> "returned", pending |-> {}, completed |-> batch.completed,
                 result |-> gather(page.frames, batch.completed)]
    /\ UNCHANGED <<codecVars, snapshotVars, page, resolution, located, serverVars>>

BatchNext == GetAllFrameTreesNoPage \/ GetAllFrameTrees \/ SettleCapture \/ ReturnFrameTrees

BatchSpec == BatchInit /\ [][BatchNext]_vars

----------------------------------------------------------------------------
(* Specification of the rendering of one capture *)

\* a node with no role, its name a double quote and then the text of a
\* reference attribute, its value a single backslash
HostileLabel ==
    Plain("", <<"\"", "[", "r", "e", "f", "=", "s", "1", "e", "1", "]">>, <<"\\">>)

\* a heading of level 2 whose name has a line break in it
NewlineLabel == [Plain("heading", <<"a", "\n", "b">>, <<>>) EXCEPT !.level = 2]

\* a button whose name is a backslash, the letter n and a backslash
BackslashLabel == Plain("button", <<"\\", "n", "\\">>, <<>>)

RenderLabels == {ButtonLabel, HostileLabel, NewlineLabel, BackslashLabel}

\* every combination of the properties processSnapshot copies, on a button and
\* on a heading
AttributeLabels ==
    [role : {"button", "heading"}, name : {<<"O", "k">>}, value : {<<>>, <<"v">>},
     description : {<<>>}, selected : BOOLEAN, checked : BOOLEAN, disabled : BOOLEAN,
     required : BOOLEAN, focused : BOOLEAN, level : {0, 2}]

RenderTrees ==
    RawTrees(RenderLabels, MaxRenderNodes)
    \cup {WithPaths(RawNode(label, children), <<>>) :
             label \in AttributeLabels,
             children \in {<<>>, <<RawNode(ButtonLabel, <<>>)>>}}

RenderInit ==
    /\ CodecIdle
    /\ ServerIdle
    /\ ResolverIdle
    /\ rawTree \in RenderTrees \cup {NullTree}
    /\ captures = <<>>
    /\ domChanges = 0

RenderNext == captures = <<>> /\ CaptureTs

RenderSpec == RenderInit /\ [][RenderNext]_vars

----------------------------------------------------------------------------
(* connectWithRetry *)

\* what puppeteer.connect can reject with
ConnectErrors == {"ECONNREFUSED", "Timed out"}

\* lastError before any attempt has failed, and browser before one connected
NoError == [attempt |-> 0, kind |-> "none"]

NoBrowser == [attempt |-> 0]

RECURSIVE Pow2(_)
Pow2(n) == IF n = 0 THEN 1 ELSE 2 * Pow2(n - 1)

\* the catch of connectWithRetry keeping the first error instead of the last
caughtKeepingFirst(call, error) ==
    LET retries == call.retries + 1
        lastError == IF call.lastError = NoError THEN error ELSE call.lastError
    IN  [call EXCEPT
            !.attempts = Append(@, error),
            !.lastError = lastError,
            !.delays = IF call.retries < call.maxRetries
                       THEN Append(@, Pow2(call.retries) * 1000) ELSE @,
            !.retries = retries,
            !.status = IF retries <= call.maxRetries THEN "connecting" ELSE "thrown",
            !.error = IF retries <= call.maxRetries THEN NoError ELSE lastError]

\* the catch block of the loop, the loop test after it and the throw behind
\* the loop
caught(call, error) ==
    LET retries == call.retries + 1
    IN  [call EXCEPT
            !.attempts = Append(@, error),
            !.lastError = error,
            !.delays = IF call.retries < call.maxRetries
                       THEN Append(@, Pow2(call.retries) * 1000) ELSE @,
            !.retries = retries,
            !.status = IF retries <= call.maxRetries THEN "connecting" ELSE "thrown",
            !.error = IF retries <= call.maxRetries THEN NoError ELSE error]

\* connectWithRetry(endpoint, maxRetries) has been called: retries = 0 and
\* the loop is entered (maxRetries is not negative)
RetryInit ==
    /\ CodecIdle
    /\ SnapshotIdle
    /\ ResolverIdle
    /\ navigation = NotCalled
    /\ client = NotCalled
    /\ server = NotCalled
    /\ \E maxRetries \in 0..MaxRetries :
          connection = [status |-> "connecting", maxRetries |-> maxRetries, retries |-> 0,
                        attempts |-> <<>>, lastError |-> NoError, delays |-> <<>>,
                        browser |-> NoBrowser, error |-> NoError]

\* puppeteer.connect resolves: the browser is returned
ConnectResolves ==
    /\ connection.status = "connecting"
    /\ connection.retries <= connection.maxRetries
    /\ connection' = [connection EXCEPT
                         !.attempts = Append(@, [attempt |-> Len(@) + 1, kind |-> "connected"]),
                         !.status = "returned",
                         !.browser = [attempt |-> Len(connection.attempts) + 1]]
    /\ UNCHANGED <<codecVars, snapshotVars, resolverVars, navigation, client, server>>

\* puppeteer.connect rejects: the error is kept, and unless this was the last
\* attempt the loop goes round again after its delay
ConnectRejects ==
    /\ connection.status = "connecting"
    /\ connection.retries <= connection.maxRetries
    /\ \E kind \in ConnectErrors :
          connection' = caught(connection,
                               [attempt |-> Len(connection.attempts) + 1, kind |-> kind])
    /\ UNCHANGED <<codecVars, snapshotVars, resolverVars, navigation, client, server>>

RetryNext == ConnectResolves \/ ConnectRejects

RetrySpec == RetryInit /\ [][RetryNext]_vars

----------------------------------------------------------------------------
(* The server: its globals browser and page, ensureBrowser and handleToolCall.
   A browser is its number in server.browsers, a page the number of the
   browser it was opened in, and 0 is undefined. An invocation runs from one
   await to the next in one step. *)

Tools == {"browser_snapshot", "puppeteer_screenshot", "no_such_tool"}

\* the invocation the timer of the 'disconnected' handler makes
Reconnection == "reconnect"

\* browser.isConnected()
isConnected(state, b) == b # 0 /\ state.browsers[b].live

\* page && !page.isClosed()
isOpen(state, p) == p # 0 /\ state.browsers[p].live

InFlight(state) == Cardinality({c \in 1..Len(state.calls) : state.calls[c].pc # "done"})

\* invocation c goes on to its next await
goesOn(state, c, pc, target) ==
    [state EXCEPT !.calls[c].pc = pc, !.calls[c].target = target,
                  !.calls[c].path = Append(@, pc)]

\* ensureBrowser throws in invocation c: handleToolCall awaits it outside any
\* try and rejects with it, the timer's callback catches and logs it
throws(state, c, message) ==
    [state EXCEPT !.calls[c].pc = "done",
                  !.calls[c].outcome =
                      IF state.calls[c].tool = Reconnection THEN "logged" ELSE "rejected",
                  !.calls[c].message = message]

\* ensureBrowser returns the page in invocation c: handleToolCall goes on to
\* the switch, the timer's callback is done
returnsPage(state, c, p) ==
    IF state.calls[c].tool = Reconnection
    THEN [state EXCEPT !.calls[c].pc = "done", !.calls[c].outcome = "ready"]
    ELSE goesOn(state, c, "tool", p)

\* ensureBrowser up to its first await, in a new invocation for tool
ensureBrowser(state, tool) ==
    LET c == Len(state.calls) + 1
        call == [tool |-> tool, pc |-> "entered", target |-> 0, path |-> <<>>,
                 outcome |-> "pending", message |-> ""]
        entered == [state EXCEPT !.calls = Append(@, call)]
    IN  IF ~isConnected(state, state.browser)
        THEN goesOn([entered EXCEPT !.browser = 0, !.page = 0], c,
                    IF state.endpoint THEN "connect" ELSE "launch", 0)
        ELSE IF ~isOpen(state, state.page)
        THEN goesOn(entered, c, "newpage", state.browser)
        ELSE returnsPage(entered, c, state.page)

\* the browser's 'disconnected' event and the handler ensureBrowser put on it
disconnected(state, b) ==
    [state EXCEPT !.browsers[b].live = FALSE,
                  !.browser = 0,
                  !.page = 0,
                  !.timers = IF state.browsers[b].kind = "remote" THEN @ + 1 ELSE @]

\* the browser connected to or launched is assigned, and createPage(browser) called
assigned(state, c, kind) ==
    LET b == Len(state.browsers) + 1
    IN  goesOn([state EXCEPT !.browsers = Append(@, [kind |-> kind, live |-> TRUE, by |-> c]),
                             !.browser = b],
               c, "page", b)

\* the catch of connectWithRetry falling back whatever FALLBACK_TO_LOCAL_CHROME is
connectFailedFallingBack(state, c) ==
    LET failed == [state EXCEPT !.calls[c].path = Append(@, "connect failed")]
    IN  IF state.browser = 0
        THEN goesOn(failed, c, "launch", 0)
        ELSE goesOn(failed, c, "page", state.browser)

\* the catch of connectWithRetry, and the test of browser behind it
connectFailed(state, c) ==
    LET failed == [state EXCEPT !.calls[c].path = Append(@, "connect failed")]
    IN  IF state.fallback = "false"
        THEN throws(failed, c, "Could not connect to browser and fallback is disabled.")
        ELSE IF state.browser = 0
        THEN goesOn(failed, c, "launch", 0)
        ELSE goesOn(failed, c, "page", state.browser)

\* the server has started: no browser yet; the environment has the endpoint
\* set or not, and FALLBACK_TO_LOCAL_CHROME "false" or not
ServerInit ==
    /\ CodecIdle
    /\ SnapshotIdle
    /\ ResolverIdle
    /\ connection = NotCalled
    /\ navigation = NotCalled
    /\ client = NotCalled
    /\ \E endpoint \in BOOLEAN, fallback \in {"unset", "false"} :
          server = [status |-> "running", endpoint |-> endpoint, fallback |-> fallback,
                    browser |-> 0, page |-> 0, browsers |-> <<>>, timers |-> 0,
                    calls |-> <<>>]

Others == <<codecVars, snapshotVars, resolverVars, connection, navigation, client>>

\* a CallTool request arrives
HandleToolCall ==
    /\ Len(server.calls) < MaxCalls
    /\ \E tool \in Tools : server' = ensureBrowser(server, tool)
    /\ UNCHANGED Others

\* the timer of a remote browser's 'disconnected' handler fires
ReconnectTimer ==
    /\ server.timers > 0
    /\ Len(server.calls) < MaxCalls
    /\ server' = ensureBrowser([server EXCEPT !.timers = @ - 1], Reconnection)
    /\ UNCHANGED Others

\* await connectWithRetry(endpoint) settles
ConnectSettles ==
    /\ \E c \in 1..Len(server.calls) :
          /\ server.calls[c].pc = "connect"
          /\ \/ Len(server.browsers) < MaxBrowsers /\ server' = assigned(server, c, "remote")
             \/ server' = connectFailed(server, c)
    /\ UNCHANGED Others

\* await puppeteer.launch(launchConfig) settles
LaunchSettles ==
    /\ \E c \in 1..Len(server.calls) :
          /\ server.calls[c].pc = "launch"
          /\ \/ Len(server.browsers) < MaxBrowsers /\ server' = assigned(server, c, "local")
             \/ server' = throws(server, c, "Failed to initialize browser session.")
    /\ UNCHANGED Others

\* await createPage(browser) settles, in either branch of ensureBrowser
CreatePageSettles ==
    /\ \E c \in 1..Len(server.calls) :
          LET b == server.calls[c].target
          IN  /\ server.calls[c].pc \in {"page", "newpage"}
              /\ \/ /\ isConnected(server, b)
                    /\ server' = returnsPage([server EXCEPT !.page = b], c, b)
                 \/ /\ server.calls[c].pc = "page"
                    /\ LET closed == IF isConnected(server, server.browser)
                                     THEN disconnected(server, server.browser)
                                     ELSE server
                       IN  server' = throws([closed EXCEPT !.browser = 0], c,
                                            "Failed to initialize browser page.")
                 \/ /\ server.calls[c].pc = "newpage"
                    /\ server' = throws([server EXCEPT !.page = 0], c,
                                        "Failed to open new browser page.")
    /\ UNCHANGED Others

\* the case of the switch runs to its end: its try returns a result, its catch
\* an error result; page.setViewport of puppeteer_screenshot is outside the
\* try, and an unknown name throws
ToolSettles ==
    /\ \E c \in 1..Len(server.calls) :
          /\ server.calls[c].pc = "tool"
          /\ \E outcome \in
                 IF server.calls[c].tool = "no_such_tool" THEN {"rejected"}
                 ELSE IF server.calls[c].tool = "puppeteer_screenshot"
                 THEN {"result", "error result", "rejected"}
                 ELSE {"result", "error result"} :
                server' = [server EXCEPT !.calls[c].pc = "done",
                                         !.calls[c].outcome = outcome]
    /\ UNCHANGED Others

\* a connected browser goes away
Disconnected ==
    /\ \E b \in 1..Len(server.browsers) :
          /\ server.browsers[b].live
          /\ server' = disconnected(server, b)
    /\ UNCHANGED Others

ServerNext ==
    \/ HandleToolCall
    \/ ReconnectTimer
    \/ ConnectSettles
    \/ LaunchSettles
    \/ CreatePageSettles
    \/ ToolSettles
    \/ Disconnected

\* requests arrive whenever the client sends them
ServerSpec == ServerInit /\ [][ServerNext]_vars

\* the client sends a request only after the answer to the one before, and no
\* timer fires in between
SerialNext ==
    \/ HandleToolCall /\ InFlight(server') <= 1
    \/ ReconnectTimer /\ InFlight(server') <= 1
    \/ ConnectSettles
    \/ LaunchSettles
    \/ CreatePageSettles
    \/ ToolSettles
    \/ Disconnected

SerialSpec == ServerInit /\ [][SerialNext]_vars

----------------------------------------------------------------------------
(* isAllowedDomain and the puppeteer_navigate case. Hostnames are short:
   "b.c" stands for a base domain such as example.com, "a.b.c" for a
   subdomain of it, "ab.c" for a name that only ends with its text. *)

\* the values of ALLOWED_DOMAINS: unset, one domain, a wildcard, and lists
AllowLists ==
    {<<>>,
     <<"b", ".", "c">>,
     <<"*", ".", "b", ".", "c">>,
     <<"x", ".", "y", ",", " ", "*", ".", "b", ".", "c">>,
     <<"x", ".", "y", ",", ",", " ", "a", ".", "b", ".", "c", " ">>}

\* the url arguments: http URLs of five hosts, and strings new URL() rejects
Urls ==
    {<<"h", "t", "t", "p", ":", "/", "/">> \o host \o <<"/">> :
        host \in {<<"b", ".", "c">>, <<"a", ".", "b", ".", "c">>, <<"a", "b", ".", "c">>,
                  <<"x", ".", "y">>, <<"c">>}}
    \cup {<<>>, <<"b", ".", "c">>, <<"h", "t", "t", "p", ":", "/", "/">>}

\* str.split(',').map(d => d.trim()).filter(Boolean)
RECURSIVE allowedDomains(_, _)
allowedDomains(str, word) ==
    LET trimmed == IF word # <<>> /\ word[Len(word)] = " "
                   THEN SubSeq(word, 1, Len(word) - 1) ELSE word
        done == IF trimmed = <<>> THEN <<>> ELSE <<trimmed>>
    IN  IF str = <<>> THEN (IF trimmed # word THEN allowedDomains(str, trimmed) ELSE done)
        ELSE IF Head(str) = "," THEN
            (IF trimmed # word THEN allowedDomains(str, trimmed)
             ELSE done \o allowedDomains(Tail(str), <<>>))
        ELSE IF Head(str) = " " /\ word = <<>> THEN allowedDomains(Tail(str), <<>>)
        ELSE allowedDomains(Tail(str), Append(word, Head(str)))

\* new URL(url).hostname of an http URL: what stands between "http://" and the
\* next "/"; [thrown |-> TRUE] where new URL throws
hostname(url) ==
    LET scheme == <<"h", "t", "t", "p", ":", "/", "/">>
        rest == SubSeq(url, Len(scheme) + 1, Len(url))
        slashes == {i \in 1..Len(rest) : rest[i] = "/"}
        host == IF slashes = {} THEN rest
                ELSE SubSeq(rest, 1, (CHOOSE i \in slashes : \A j \in slashes : i <= j) - 1)
    IN  IF Len(url) <= Len(scheme) \/ SubSeq(url, 1, Len(scheme)) # scheme \/ host = <<>>
        THEN [thrown |-> TRUE, name |-> <<>>]
        ELSE [thrown |-> FALSE, name |-> host]

isAllowedDomain(env, url) ==
    LET domains == allowedDomains(env, <<>>)
        host == hostname(url)
    IN  IF domains = <<>> THEN TRUE
        ELSE IF host.thrown THEN FALSE
        ELSE \E d \in 1..Len(domains) :
                LET domain == domains[d]
                    baseDomain == SubSeq(domain, 3, Len(domain))
                IN  IF Len(domain) >= 2 /\ SubSeq(domain, 1, 2) = <<"*", ".">>
                    THEN /\ Len(host.name) >= Len(baseDomain)
                         /\ SubSeq(host.name, Len(host.name) - Len(baseDomain) + 1,
                                   Len(host.name)) = baseDomain
                    ELSE host.name = domain

\* handleToolCall('puppeteer_navigate', {url}) has its page
DomainInit ==
    /\ CodecIdle
    /\ SnapshotIdle
    /\ ResolverIdle
    /\ connection = NotCalled
    /\ client = NotCalled
    /\ server = NotCalled
    /\ \E env \in AllowLists, url \in Urls :
          navigation = [status |-> "called", env |-> env, url |-> url,
                        goto |-> <<>>, isError |-> FALSE, text |-> ""]

\* the puppeteer_navigate case: the allowlist test, then page.goto under
\* withTimeout, which resolves, rejects or times out
Navigate ==
    /\ navigation.status = "called"
    /\ IF ~isAllowedDomain(navigation.env, navigation.url)
       THEN navigation' = [navigation EXCEPT !.status = "returned", !.isError = TRUE,
                                             !.text = "Navigation is not allowed"]
       ELSE \E outcome \in {"Navigated", "Failed to navigate", "timed out"} :
               navigation' = [navigation EXCEPT
                                 !.status = "returned",
                                 !.goto = <<navigation.url>>,
                                 !.isError = (outcome # "Navigated"),
                                 !.text = outcome]
    /\ UNCHANGED <<codecVars, snapshotVars, resolverVars, connection, client, server>>

DomainSpec == DomainInit /\ [][Navigate]_vars

----------------------------------------------------------------------------
(* The SSE client of the browser page: SSEClient. The client keeps one
   EventSource at a time; its earlier ones are closed and fire no event. *)

maxReconnectAttempts == 5

\* connectToSSE(): the EventSource at hand is closed and a new one created
connectToSSE(sse) ==
    [sse EXCEPT !.eventSource = sse.sources + 1,
                !.readyState = "CONNECTING",
                !.sources = @ + 1]

\* the page is loaded: the Connect button enabled, the Disconnect button disabled
SseInit ==
    /\ CodecIdle
    /\ SnapshotIdle
    /\ ResolverIdle
    /\ connection = NotCalled
    /\ navigation = NotCalled
    /\ server = NotCalled
    /\ client = [status |-> "loaded", eventSource |-> 0, readyState |-> "none",
                 reconnectAttempts |-> 0, timers |-> 0, sources |-> 0,
                 connectDisabled |-> FALSE, disconnectDisabled |-> TRUE,
                 message |-> "",
                 closedErrors |-> 0, scheduled |-> 0, userDisconnected |-> FALSE]

Rest == <<codecVars, snapshotVars, resolverVars, connection, navigation, server>>

\* the user clicks Connect
ClickConnect ==
    /\ ~client.connectDisabled
    /\ client.sources < MaxSources
    /\ client' = [connectToSSE(client) EXCEPT !.userDisconnected = FALSE]
    /\ UNCHANGED Rest

\* the user clicks Disconnect
ClickDisconnect ==
    /\ ~client.disconnectDisabled
    /\ client' = IF client.eventSource # 0
                 THEN [client EXCEPT !.eventSource = 0, !.readyState = "none",
                                     !.message = "Disconnected",
                                     !.disconnectDisabled = TRUE,
                                     !.connectDisabled = FALSE,
                                     !.userDisconnected = TRUE]
                 ELSE [client EXCEPT !.userDisconnected = TRUE]
    /\ UNCHANGED Rest

\* eventSource.onopen
OnOpen ==
    /\ client.eventSource # 0
    /\ client.readyState = "CONNECTING"
    /\ client' = [client EXCEPT !.readyState = "OPEN",
                                !.reconnectAttempts = 0,
                                !.message = "Connected to event stream",
                                !.disconnectDisabled = FALSE,
                                !.connectDisabled = TRUE,
                                !.closedErrors = 0,
                                !.scheduled = 0]
    /\ UNCHANGED Rest

\* onerror without its test of reconnectAttempts: every closed connection
\* is retried
OnErrorAlwaysRetrying ==
    /\ client.eventSource # 0
    /\ client.readyState \in {"CONNECTING", "OPEN"}
    /\ \/ client' = [client EXCEPT !.readyState = "CLOSED",
                                   !.reconnectAttempts = @ + 1,
                                   !.message = "Reconnecting",
                                   !.timers = @ + 1,
                                   !.closedErrors = @ + 1,
                                   !.scheduled = @ + 1]
       \/ client' = [client EXCEPT !.readyState = "CONNECTING",
                                   !.message = "Connection error"]
    /\ UNCHANGED Rest

\* eventSource.onerror: the browser has closed the connection for good
\* (readyState CLOSED) or is retrying it (readyState CONNECTING)
OnError ==
    /\ client.eventSource # 0
    /\ client.readyState \in {"CONNECTING", "OPEN"}
    /\ \/ client' =
             IF client.reconnectAttempts < maxReconnectAttempts
             THEN [client EXCEPT !.readyState = "CLOSED",
                                 !.reconnectAttempts = @ + 1,
                                 !.message = "Reconnecting",
                                 !.timers = @ + 1,
                                 !.closedErrors = @ + 1,
                                 !.scheduled = @ + 1]
             ELSE [client EXCEPT !.readyState = "CLOSED",
                                 !.message = "Max reconnection attempts reached",
                                 !.closedErrors = @ + 1]
       \/ client' = [client EXCEPT !.readyState = "CONNECTING",
                                   !.message = "Connection error"]
    /\ UNCHANGED Rest

\* a timer set by onerror runs out: () => this.connectToSSE()
ReconnectTimeout ==
    /\ client.status = "loaded"
    /\ client.timers > 0
    /\ client.sources < MaxSources
    /\ client' = [connectToSSE(client) EXCEPT !.timers = @ - 1]
    /\ UNCHANGED Rest

SseNext == ClickConnect \/ ClickDisconnect \/ OnOpen \/ OnError \/ ReconnectTimeout

SseSpec == SseInit /\ [][SseNext]_vars

----------------------------------------------------------------------------
(* Claims about the codec *)

\* the number a decimal numeral denotes: the sum of digit * 10^place
RECURSIVE Pow10(_)
Pow10(k) == IF k = 0 THEN 1 ELSE 10 * Pow10(k - 1)

RECURSIVE Decimal(_)
Decimal(numeral) ==
    IF Len(numeral) = 0 THEN 0
    ELSE DigitValue(Head(numeral)) * Pow10(Len(numeral) - 1) + Decimal(Tail(numeral))

Numeral(text) == text # <<>> /\ \A k \in 1..Len(text) : text[k] \in DigitChars

\* text is f<F>s<S>e<E>, its "s" at position i and its "e" at position j
IsFrameShape(text, i, j) ==
    /\ 1 < i /\ i < j /\ j < Len(text)
    /\ Numeral(SubSeq(text, 2, i - 1))
    /\ Numeral(SubSeq(text, i + 1, j - 1))
    /\ Numeral(SubSeq(text, j + 1, Len(text)))
    /\ text = <<"f">> \o SubSeq(text, 2, i - 1) \o <<"s">> \o SubSeq(text, i + 1, j - 1)
                \o <<"e">> \o SubSeq(text, j + 1, Len(text))

\* text is s<S>e<E>, its "e" at position j
IsMainShape(text, j) ==
    /\ 1 < j /\ j < Len(text)
    /\ Numeral(SubSeq(text, 2, j - 1))
    /\ Numeral(SubSeq(text, j + 1, Len(text)))
    /\ text = <<"s">> \o SubSeq(text, 2, j - 1) \o <<"e">> \o SubSeq(text, j + 1, Len(text))

Positions(text) == 1..Len(text)

\* C1: parseElementRefId returns {frameIndex: F, snapshotIndex: S, elementIndex: E}
\* for every string f<F>s<S>e<E>, and {snapshotIndex: S, elementIndex: E}, a record
\* with no frameIndex field, for every string s<S>e<E>.
C1_ParseAcceptsBothShapes ==
    parseResult.status # "none" =>
        /\ \A i, j \in Positions(refId) :
              IsFrameShape(refId, i, j) =>
                  parseResult =
                      Returned([frameIndex |-> Decimal(SubSeq(refId, 2, i - 1)),
                                snapshotIndex |-> Decimal(SubSeq(refId, i + 1, j - 1)),
                                elementIndex |-> Decimal(SubSeq(refId, j + 1, Len(refId)))])
        /\ \A j \in Positions(refId) :
              IsMainShape(refId, j) =>
                  /\ parseResult.status = "returned"
                  /\ DOMAIN parseResult.value = {"snapshotIndex", "elementIndex"}
                  /\ parseResult.value.snapshotIndex = Decimal(SubSeq(refId, 2, j - 1))
                  /\ parseResult.value.elementIndex = Decimal(SubSeq(refId, j + 1, Len(refId)))

\* a typed main-frame reference with a two-digit snapshot number has been decoded
C1_Witness ==
    /\ encodedFrom = NoTuple
    /\ parseResult.status = "returned"
    /\ "frameIndex" \notin DOMAIN parseResult.value
    /\ parseResult.value.snapshotIndex >= 10

\* C2: for every string that is neither f<F>s<S>e<E> nor s<S>e<E>,
\* parseElementRefId throws the invalid-format error and returns nothing.
C2_ParseRejectsEverythingElse ==
    (/\ parseResult.status # "none"
     /\ ~\E i, j \in Positions(refId) : IsFrameShape(refId, i, j)
     /\ ~\E j \in Positions(refId) : IsMainShape(refId, j))
        => parseResult = Thrown(InvalidReferenceFormat)

\* a well-formed reference followed by one more character has been rejected
C2_Witness ==
    /\ parseResult.status = "thrown"
    /\ Len(refId) > 1
    /\ \E j \in Positions(refId) : IsMainShape(SubSeq(refId, 1, Len(refId) - 1), j)

----------------------------------------------------------------------------
(* Claims about the simplifiers *)

\* the nodes of a simplified tree, in pre-order
RECURSIVE Emitted(_)
RECURSIVE EmittedAll(_)
Emitted(node) == <<node>> \o EmittedAll(node.children)

EmittedAll(nodes) ==
    IF nodes = <<>> THEN <<>> ELSE Emitted(Head(nodes)) \o EmittedAll(Tail(nodes))

EmittedBy(call) == IF call.tree = Null THEN <<>> ELSE Emitted(call.tree)

IdOf(node) == IF "id" \in DOMAIN node THEN node.id ELSE node.ref

\* the id a capture gave to the raw node at path, <<>> when it gave none
IdAt(call, path) ==
    LET hits == {i \in 1..Len(EmittedBy(call)) : EmittedBy(call)[i].src = path}
    IN  IF hits = {} THEN <<>> ELSE IdOf(EmittedBy(call)[CHOOSE i \in hits : TRUE])

\* the parent-child pairs of a simplified tree, as raw paths
RECURSIVE Edges(_)
Edges(node) ==
    {<<node.src, node.children[i].src>> : i \in 1..Len(node.children)}
    \cup UNION {Edges(node.children[i]) : i \in 1..Len(node.children)}

\* a capture that had a raw tree to work on
OfTree(call) ==
    /\ call.page # NoPage
    /\ call.page.snapshot \notin {Rejected, NullTree, UndefinedTree}

RawAt(call, path) ==
    LET nodes == RawNodes(call.page.snapshot)
    IN  nodes[CHOOSE i \in 1..Len(nodes) : nodes[i].path = path]

Parent(path) == SubSeq(path, 1, Len(path) - 1)

\* passes the filter of the spec: a role, a name, or a structural role
PassesFilter(raw) == raw.role # "" \/ raw.name # <<>> \/ raw.role \in LAYOUT_ROLES

\* the proper ancestors of the raw node at path that pass the filter
RetainedAncestors(call, path) ==
    {k \in 0..(Len(path) - 1) : PassesFilter(RawAt(call, SubSeq(path, 1, k)))}

Max(set) == CHOOSE x \in set : \A y \in set : y <= x

\* C4: every id a capture emits is prefix + "e" + (1 + the node's position among
\* the raw children of its parent), 1 for the root, and decode accepts it.
C4_IdsAreEncodedPositions ==
    \A c \in DOMAIN captures :
        \A i \in 1..Len(EmittedBy(captures[c])) :
            LET node == EmittedBy(captures[c])[i]
                position == IF node.src = <<>> THEN 0 ELSE node.src[Len(node.src)]
            IN  /\ IdOf(node) = elementId(captures[c].prefix, position)
                /\ parseElementRefId(IdOf(node)).status = "returned"

\* C5: within one capture no two retained nodes have the same id.
C5_IdsAreUnique ==
    \A c \in DOMAIN captures :
        \A i, j \in 1..Len(EmittedBy(captures[c])) :
            i # j => IdOf(EmittedBy(captures[c])[i]) # IdOf(EmittedBy(captures[c])[j])

\* a capture has kept nodes at three depths and dropped one
C5_Witness ==
    \E c \in DOMAIN captures :
        /\ OfTree(captures[c])
        /\ Len(EmittedBy(captures[c])) = 3
        /\ Len(RawNodes(captures[c].page.snapshot)) = 4
        /\ \E i \in 1..3 : Len(EmittedBy(captures[c])[i].src) = 2

\* C6: a raw node with no role and no name, its role not structural, is not in
\* the simplified tree of any capture and has no id.
C6_AnonymousNodesAreDropped ==
    \A c \in DOMAIN captures :
        OfTree(captures[c]) /\ captures[c].status = "returned" =>
            \A i \in 1..Len(RawNodes(captures[c].page.snapshot)) :
                LET raw == RawNodes(captures[c].page.snapshot)[i]
                IN  ~PassesFilter(raw) =>
                        /\ IdAt(captures[c], raw.path) = <<>>
                        /\ \A j \in 1..Len(EmittedBy(captures[c])) :
                              EmittedBy(captures[c])[j].src # raw.path

\* C7: a raw node that passes the filter and has an ancestor that passes it is
\* in the simplified tree, as a child of its nearest such ancestor, also when
\* nodes between them were dropped.
C7_DescendantsAreReparented ==
    \A c \in DOMAIN captures :
        OfTree(captures[c]) /\ captures[c].impl = "js" =>
            \A i \in 1..Len(RawNodes(captures[c].page.snapshot)) :
                LET raw == RawNodes(captures[c].page.snapshot)[i]
                    above == RetainedAncestors(captures[c], raw.path)
                IN  (PassesFilter(raw) /\ above # {} /\ captures[c].tree # Null) =>
                        <<SubSeq(raw.path, 1, Max(above)), raw.path>>
                            \in Edges(captures[c].tree)

\* t2 is t1 with only the node at path turned anonymous
DropsOnly(t1, t2, path) ==
    /\ t1 # t2
    /\ t2 = Relabel(t1, path, AnonymousLabel)

\* C8: when two raw trees differ only in whether one node is dropped, every
\* sibling of that node, and every descendant of a sibling, has the same id in
\* the captures of both.
C8_DroppedSiblingShiftsNoId ==
    \A a, b \in DOMAIN captures :
        (/\ OfTree(captures[a]) /\ OfTree(captures[b])
         /\ captures[a].impl = captures[b].impl
         /\ captures[a].prefix = captures[b].prefix) =>
            \A i, j \in 1..Len(RawNodes(captures[a].page.snapshot)) :
                LET dropped == RawNodes(captures[a].page.snapshot)[i].path
                    other == RawNodes(captures[a].page.snapshot)[j].path
                IN  (/\ DropsOnly(captures[a].page.snapshot, captures[b].page.snapshot, dropped)
                     /\ dropped # <<>>
                     /\ \E k \in 1..Len(other) :
                           /\ SubSeq(other, 1, k) # dropped
                           /\ Parent(SubSeq(other, 1, k)) = Parent(dropped))
                        => IdAt(captures[a], other) = IdAt(captures[b], other)

\* the same page was captured with and without its first child dropped, and a
\* grandchild under the second child has an id in both captures
C8_Witness ==
    \E a, b \in DOMAIN captures :
        /\ OfTree(captures[a]) /\ OfTree(captures[b])
        /\ captures[a].impl = "js" /\ captures[b].impl = "js"
        /\ captures[a].prefix = captures[b].prefix
        /\ Len(captures[a].page.snapshot.children) = 2
        /\ DropsOnly(captures[a].page.snapshot, captures[b].page.snapshot, <<0>>)
        /\ IdAt(captures[a], <<1, 0>>) # <<>>
        /\ IdAt(captures[b], <<1, 0>>) # <<>>

----------------------------------------------------------------------------
(* Claims about the resolver *)

FrameNotFound == "FrameNotFound"

\* the reference names a frame the page does not have
FrameOutOfRange ==
    /\ page # NoPage
    /\ parseElementRefId(refId).status = "returned"
    /\ "frameIndex" \in DOMAIN parseElementRefId(refId).value
    /\ parseElementRefId(refId).value.frameIndex >= Len(page.frames)

\* C10: resolving a reference whose frameIndex is not below the number of
\* frames fails with FrameNotFound: the call throws that error, or at the least
\* gives its not-found result, and it returns no node of any other frame.
C10_OutOfRangeFrameFails ==
    (resolution.status # "none" /\ FrameOutOfRange) =>
        \/ resolution.status = "thrown" /\ resolution.error = FrameNotFound
        \/ resolution.status = "returned" /\ resolution.value = NullResult

\* the reference handed to the resolver is one decode rejects
Malformed == parseElementRefId(refId).status = "thrown"

\* C11: whenever findElementInPage is given a page and a malformed reference
\* string, the call fails with decode's InvalidReferenceFormat error; it never
\* returns null or any other result.
C11_MalformedReferencePropagates ==
    (resolution.status # "none" /\ page # NoPage /\ Malformed) =>
        resolution.status = "thrown" /\ resolution.error = InvalidReferenceFormat

\* the same for the malformed references that are not the empty string
C11_NonEmptyMalformedPropagates ==
    (resolution.status # "none" /\ page # NoPage /\ Malformed /\ refId # <<>>) =>
        resolution.status = "thrown" /\ resolution.error = InvalidReferenceFormat

----------------------------------------------------------------------------
(* Claims about the matching strategy *)

\* p comes before q in pre-order: p is a proper prefix of q, or at the first
\* place where they differ p takes the earlier child
PathBefore(p, q) ==
    \E k \in 0..Len(p) :
        /\ k <= Len(q)
        /\ \A i \in 1..k : p[i] = q[i]
        /\ \/ k = Len(p) /\ k < Len(q)
           \/ k < Len(p) /\ k < Len(q) /\ p[k + 1] < q[k + 1]

NodeSet(tree) == {RawNodes(tree)[i] : i \in 1..Len(RawNodes(tree))}

SameRole(node, role) == node.role # "" /\ toLowerCase(node.role) = toLowerCase(role)

InteractiveRole(node) == node.role # "" /\ toLowerCase(node.role) \in interactiveRoles

WithRole(tree, role) == {n \in NodeSet(tree) : SameRole(n, role)}

Interactive(tree) == {n \in NodeSet(tree) : InteractiveRole(n)}

\* the node of a non-empty set that comes first in pre-order
First(nodes) == CHOOSE n \in nodes : \A m \in nodes : m = n \/ PathBefore(n.path, m.path)

\* findElementInPage reached the matching strategy on the main frame's tree
Matched ==
    /\ resolution.status # "none"
    /\ parseElementRefId(refId).status = "returned"
    /\ page.frames[1] \notin {NullTree, Rejected}

\* C12: on a frame whose tree is available, findElementInPage returns the
\* pre-order-first node whose role is the hint 'button' when there is one;
\* otherwise the pre-order-first node with an interactive role; and null
\* exactly when the tree has neither.
C12_MatchingStrategy ==
    Matched =>
        LET tree == page.frames[1]
        IN  /\ resolution.status = "returned"
            /\ resolution.value =
                  IF WithRole(tree, "button") # {}
                  THEN [frame |-> 0, element |-> First(WithRole(tree, "button"))]
                  ELSE IF Interactive(tree) # {}
                  THEN [frame |-> 0, element |-> First(Interactive(tree))]
                  ELSE NullResult

\* a button two levels down was returned although a link comes before it in
\* pre-order and another button after it
C12_Witness ==
    /\ Matched
    /\ resolution.value # NullResult
    /\ resolution.value.element.role = "Button"
    /\ Len(resolution.value.element.path) = 2
    /\ \E n \in Interactive(page.frames[1]) :
          n.role = "link" /\ PathBefore(n.path, resolution.value.element.path)
    /\ \E n \in WithRole(page.frames[1], "button") :
          PathBefore(resolution.value.element.path, n.path)

\* what findElementByRefId is to return for a role
FirstWithRole(tree, role) ==
    IF tree = NullTree \/ WithRole(tree, role) = {} THEN NullResult
    ELSE First(WithRole(tree, role))

\* C13 as stated: findElementByRefId(tree, refId, role) with a non-empty role
\* returns the pre-order-first node whose role equals role ignoring case, and
\* null when no node has that role or the tree is null.
C13_FirstNodeWithRole ==
    (located.status # "none" /\ located.targetRole # NoRole) =>
        located.value = FirstWithRole(located.tree, located.targetRole)

\* C13 amended: the same, for a refId that is not the empty string.
C13_FirstNodeWithRoleGivenRefId ==
    (located.status # "none" /\ located.targetRole # NoRole /\ located.refId # <<>>) =>
        located.value = FirstWithRole(located.tree, located.targetRole)

\* 'BUTTON' found a button below the root, with another button after it and
\* an interactive node of another role before it
C13_Witness ==
    /\ located.status # "none"
    /\ located.targetRole = "BUTTON"
    /\ located.refId # <<>>
    /\ located.value # NullResult
    /\ located.value.path # <<>>
    /\ \E n \in WithRole(located.tree, "button") : PathBefore(located.value.path, n.path)
    /\ \E n \in Interactive(located.tree) :
          n.role = "link" /\ PathBefore(n.path, located.value.path)

\* the readiness wait of the call timed out
WaitTimedOut ==
    /\ resolution.status # "none"
    /\ Len(resolution.steps) >= 3
    /\ resolution.steps[3] = "wait timed out"

\* C16: when the readiness wait on the target frame times out, the call still
\* takes the frame's tree and runs the matching strategy: it returns, and it
\* returns a node whenever the tree has a button or an interactive node.
C16_TimeoutProceeds ==
    (Matched /\ WaitTimedOut) =>
        /\ resolution.status = "returned"
        /\ Len(resolution.steps) = 4
        /\ resolution.steps[4] = "snapshot"
        /\ (WithRole(page.frames[1], "button") \cup Interactive(page.frames[1]) # {}
               => resolution.value # NullResult)

\* the wait timed out and the call found a link below the root all the same
C16_Witness ==
    /\ Matched
    /\ WaitTimedOut
    /\ resolution.value # NullResult
    /\ resolution.value.element.role = "link"
    /\ resolution.value.element.path # <<>>

----------------------------------------------------------------------------
(* Claims about the batch capture *)

\* getAllFrameTrees(page) was called on a live page and has finished
BatchDone == batch.status = "returned" /\ page # NoPage

\* the frames whose capture resolved with a tree
Captured == {i \in 1..Len(page.frames) : page.frames[i] \notin {Rejected, NullTree}}

\* C14: a frame whose capture fails is left out and nothing else is lost: the
\* call returns, with exactly one entry for every frame whose capture resolved
\* with a non-null tree and no entry for any other frame.
C14_FailedFrameOnlyIsExcluded ==
    BatchDone =>
        /\ batch.result.status = "returned"
        /\ Len(batch.result.value) = Cardinality(Captured)
        /\ \A i \in Captured :
              \E k \in 1..Len(batch.result.value) :
                  batch.result.value[k] = [frame |-> i - 1, tree |-> page.frames[i]]

\* the capture of the middle frame of three failed and the other two are returned
C14_Witness ==
    /\ BatchDone
    /\ Len(page.frames) = 3
    /\ page.frames[2] = Rejected
    /\ Captured = {1, 3}
    /\ batch.result.status = "returned"
    /\ Len(batch.result.value) = 2

\* C15: whatever the order in which the captures completed, the returned
\* entries are in increasing order of frame index.
C15_ResultInFrameOrder ==
    BatchDone =>
        /\ batch.result.status = "returned"
        /\ \A j, k \in 1..Len(batch.result.value) :
              j < k => batch.result.value[j].frame < batch.result.value[k].frame

\* three captures completed last frame first, and all three are returned
C15_Witness ==
    /\ BatchDone
    /\ batch.completed = <<2, 1, 0>>
    /\ batch.result.status = "returned"
    /\ Len(batch.result.value) = 3

----------------------------------------------------------------------------
(* Claims about the serializers *)

\* the raw tree {}
EmptyObject == WithPaths(RawNode(AnonymousLabel, <<>>), <<>>)

\* C17: formatAccessibilityTreeToYaml of null, of undefined and of {} returns
\* the empty string: the call returns, and its text has no line at all.
C17_NothingSerializesToNothing ==
    \A k \in 1..Len(captures) :
        (captures[k].impl = "yaml"
            /\ captures[k].page.snapshot \in {NullTree, UndefinedTree, EmptyObject}) =>
                /\ captures[k].status = "returned"
                /\ captures[k].text = EmptyText

\* {} was serialized
C17_Witness ==
    \E k \in 1..Len(captures) :
        /\ captures[k].impl = "yaml"
        /\ captures[k].page.snapshot = EmptyObject
        /\ captures[k].text = EmptyText

\* the number of backslashes that stand right before position j of text
BackslashRun(text, j) ==
    CHOOSE r \in 0..(j - 1) :
        /\ \A m \in 1..r : text[j - m] = "\\"
        /\ (r = j - 1 \/ text[j - r - 1] # "\\")

\* the double quotes of text that open or close a quoted string: those not
\* escaped by a backslash (a backslash itself escaped escapes nothing)
Delimiters(text) ==
    {j \in 1..Len(text) : text[j] = "\"" /\ BackslashRun(text, j) % 2 = 0}

\* the places of text where token stands outside every quoted string: an even
\* number of delimiters comes before it
TokensOf(text, token) ==
    LET delimiters == Delimiters(text)
    IN  {i \in 1..(Len(text) - Len(token) + 1) :
            /\ SubSeq(text, i, i + Len(token) - 1) = token
            /\ Cardinality({j \in delimiters : j < i}) % 2 = 0}

RefToken(id) == <<"[">> \o Chars("ref") \o <<"=">> \o id \o <<"]">>

\* a capture of utils/accessibilitySnapshot.ts that had a tree to render
Rendered(call) == call.impl = "ts" /\ call.status = "returned" /\ OfTree(call)

\* C18: in the text of every capture, whatever the names and values of the
\* nodes, there is exactly one ref= attribute for each node of the tree, and
\* the attribute [ref=<id>] of each node's id stands in the text exactly once
\* (attributes are what stands outside the quoted names and values).
C18_EachRefRenderedOnce ==
    \A k \in 1..Len(captures) :
        Rendered(captures[k]) =>
            LET text == JoinLines(captures[k].text)
                nodes == EmittedBy(captures[k])
            IN  /\ Cardinality(TokensOf(text, <<"[">> \o Chars("ref") \o <<"=">>)) = Len(nodes)
                /\ \A i \in 1..Len(nodes) :
                      Cardinality(TokensOf(text, RefToken(nodes[i].ref))) = 1

\* a tree of three nodes was rendered, one of them named like a reference
\* attribute behind a quote
C18_Witness ==
    \E k \in 1..Len(captures) :
        /\ Rendered(captures[k])
        /\ Len(EmittedBy(captures[k])) = 3
        /\ \E i \in 1..3 : EmittedBy(captures[k])[i].name = HostileLabel.name

\* where the lines of text start: at its first character and after each line break
LineStarts(text) == {1} \cup {i + 1 : i \in {j \in 1..Len(text) : text[j] = "\n"}}

\* the n-th line of text, without its line break
LineOf(text, n) ==
    LET starts == LineStarts(text)
        start == CHOOSE b \in starts : Cardinality({c \in starts : c < b}) = n - 1
        after == {c \in starts : c > start}
        end == IF after = {} THEN Len(text)
               ELSE (CHOOSE c \in after : \A d \in after : c <= d) - 2
    IN  SubSeq(text, start, end)

\* the key of the bracketed attribute that opens at position i of line: what
\* stands between the bracket and the first "=" or "]" after it
KeyAt(line, i) ==
    LET ends == {e \in (i + 1)..Len(line) : line[e] \in {"=", "]"}}
    IN  SubSeq(line, i + 1, (CHOOSE e \in ends : \A f \in ends : e <= f) - 1)

\* the keys of the bracketed attributes of a line, from left to right
KeysOf(line) ==
    LET opens == TokensOf(line, <<"[">>)
    IN  [n \in 1..Cardinality(opens) |->
            KeyAt(line, CHOOSE i \in opens : Cardinality({j \in opens : j < i}) = n - 1)]

AttributeOrder ==
    <<"value", "selected", "checked", "disabled", "required", "focused", "level", "ref">>

\* the raw node has the attribute: it is there and not false, and level counts
\* on a heading only
Has(raw, key) ==
    CASE key = "value" -> raw.value # <<>>
      [] key = "selected" -> raw.selected
      [] key = "checked" -> raw.checked
      [] key = "disabled" -> raw.disabled
      [] key = "required" -> raw.required
      [] key = "focused" -> raw.focused
      [] key = "level" -> raw.role = "heading" /\ raw.level # 0
      [] key = "ref" -> TRUE

ExpectedKeys(raw) ==
    LET present == SelectSeq(AttributeOrder, LAMBDA key : Has(raw, key))
    IN  [n \in 1..Len(present) |-> Chars(present[n])]

\* C19: the bracketed attributes of each rendered line are, from left to
\* right, those of value, selected, checked, disabled, required, focused, level,
\* ref that the node has: ref always and last, level on a heading only, and
\* nothing for an attribute that is absent or false.
C19_AttributesInFixedOrder ==
    \A k \in 1..Len(captures) :
        Rendered(captures[k]) =>
            LET text == JoinLines(captures[k].text)
                raw == RawNodes(captures[k].page.snapshot)
            IN  /\ Cardinality(LineStarts(text)) = Len(raw)
                /\ \A i \in 1..Len(raw) : KeysOf(LineOf(text, i)) = ExpectedKeys(raw[i])

\* a heading with a value, a level and all five flags was rendered
C19_Witness ==
    \E k \in 1..Len(captures) :
        /\ Rendered(captures[k])
        /\ captures[k].page.snapshot.role = "heading"
        /\ Len(KeysOf(LineOf(JoinLines(captures[k].text), 1))) = 8

\* the number of blanks a line starts with
Indentation(line) ==
    CHOOSE n \in 0..Len(line) :
        /\ \A m \in 1..n : line[m] = " "
        /\ (n = Len(line) \/ line[n + 1] # " ")

\* C20: the lines of a rendered tree are its nodes in pre-order of the raw
\* children, each two blanks deeper than its parent, and a line ends with ':'
\* exactly when its node has a child.
C20_ColonIffChildren ==
    \A k \in 1..Len(captures) :
        Rendered(captures[k]) =>
            LET text == JoinLines(captures[k].text)
                raw == RawNodes(captures[k].page.snapshot)
            IN  /\ Cardinality(LineStarts(text)) = Len(raw)
                /\ \A i \in 1..Len(raw) :
                      LET line == LineOf(text, i)
                      IN  /\ Indentation(line) = 2 * Len(raw[i].path)
                          /\ TokensOf(line, RefToken(IdAt(captures[k], raw[i].path))) # {}
                          /\ (line[Len(line)] = ":") <=> (raw[i].children # <<>>)

\* a root with two children was rendered, one child's name with a line break
C20_Witness ==
    \E k \in 1..Len(captures) :
        /\ Rendered(captures[k])
        /\ Len(captures[k].page.snapshot.children) = 2
        /\ captures[k].page.snapshot.children[1].name = NewlineLabel.name
        /\ Cardinality(LineStarts(JoinLines(captures[k].text))) = 3

\* reading an escaped string back from left to right: a backslash and the
\* character after it stand for one character
RECURSIVE Unescape(_)
Unescape(str) ==
    IF str = <<>> THEN <<>>
    ELSE IF Head(str) = "\\" /\ Len(str) >= 2
         THEN LET c == str[2]
                  plain == CASE c = "n" -> "\n"
                             [] c = "r" -> "\r"
                             [] c = "t" -> "\t"
                             [] OTHER -> c
              IN  <<plain>> \o Unescape(SubSeq(str, 3, Len(str)))
         ELSE <<Head(str)>> \o Unescape(Tail(str))

\* the smallest number of a non-empty set of numbers
Least(numbers) == CHOOSE n \in numbers : \A m \in numbers : n <= m

\* a line of the rendered text read back: the role is what stands between
\* "- " and the next blank, the name is the quoted string right after the role
\* (none when a bracket follows), the id is the ref attribute outside the
\* quoted strings
ParsedLine(line) ==
    LET body == SubSeq(line, Indentation(line) + 3, Len(line))
        blank == Least({i \in 1..Len(body) : body[i] = " "})
        named == body[blank + 1] = "\""
        close == Least({j \in Delimiters(body) : j > blank + 1})
        key == <<"[">> \o Chars("ref") \o <<"=">>
        start == Least(TokensOf(body, key)) + Len(key)
        stop == Least({j \in start..Len(body) : body[j] = "]"})
    IN  [role |-> SubSeq(body, 1, blank - 1),
         name |-> IF named THEN Unescape(SubSeq(body, blank + 2, close - 1)) ELSE <<>>,
         id |-> SubSeq(body, start, stop - 1)]

\* C21: the text of a rendered tree reads back, line by line, as the role,
\* name and id of the tree's nodes in pre-order: the role the raw node has
\* ("unknown" for none), the id the capture gave it, and, after unescaping,
\* exactly the name the raw node has, whatever backslashes, quotes, line
\* breaks or bracketed text the name contains.
C21_TextReadsBack ==
    \A k \in 1..Len(captures) :
        Rendered(captures[k]) =>
            LET text == JoinLines(captures[k].text)
                raw == RawNodes(captures[k].page.snapshot)
            IN  /\ Cardinality(LineStarts(text)) = Len(raw)
                /\ \A i \in 1..Len(raw) :
                      ParsedLine(LineOf(text, i)) =
                          [role |-> Chars(IF raw[i].role = "" THEN "unknown" ELSE raw[i].role),
                           name |-> raw[i].name,
                           id |-> IdAt(captures[k], raw[i].path)]

\* a tree was rendered that has a name of backslashes, a name with a quote
\* and bracketed text, and a name with a line break
C21_Witness ==
    \E k \in 1..Len(captures) :
        /\ Rendered(captures[k])
        /\ LET raw == RawNodes(captures[k].page.snapshot)
           IN  /\ Len(raw) = 3
               /\ {raw[i].name : i \in 1..3} =
                      {BackslashLabel.name, HostileLabel.name, NewlineLabel.name}
               /\ ParsedLine(LineOf(JoinLines(captures[k].text), 1)).name = raw[1].name

\* C22: a capture of browser/snapshot.js that is given no page returns the
\* text "Error: No page provided": it does not raise, and it has no tree,
\* whatever the page in the browser shows.
C22_NoPageIsAnErrorText ==
    \A k \in 1..Len(captures) :
        (captures[k].impl = "js" /\ captures[k].page = NoPage) =>
            /\ captures[k].status = "returned"
            /\ captures[k].text = ErrorText("No page provided")
            /\ captures[k].tree = Null

\* browser/snapshot.js was called without a page while the browser showed a tree
C22_Witness ==
    \E k \in 1..Len(captures) :
        /\ captures[k].impl = "js"
        /\ captures[k].page = NoPage
        /\ captures[k].text = ErrorText("No page provided")
        /\ rawTree \notin {NullTree, UndefinedTree}

\* C25: a connectWithRetry(endpoint, maxRetries) call makes at most
\* maxRetries + 1 attempts; it returns the browser of the first attempt that
\* connects, and no attempt follows that one; and when every attempt has failed
\* it throws the error of the last one, after maxRetries + 1 attempts.
C25_BoundedRetries ==
    connection.status # "none" =>
        LET attempts == connection.attempts
            n == Len(attempts)
        IN  /\ n <= connection.maxRetries + 1
            /\ (connection.status = "connecting" => n <= connection.maxRetries)
            /\ \A i \in 1..(n - 1) : attempts[i].kind # "connected"
            /\ (connection.status = "returned" <=> (n > 0 /\ attempts[n].kind = "connected"))
            /\ (connection.status = "returned" => connection.browser = [attempt |-> n])
            /\ (connection.status = "thrown" =>
                    /\ n = connection.maxRetries + 1
                    /\ attempts[n].kind # "connected"
                    /\ connection.error = attempts[n])

\* the default of three retries was used up by three different failures and
\* the fourth attempt failed too
C25_Witness ==
    /\ connection.status = "thrown"
    /\ connection.maxRetries = 3
    /\ connection.attempts[1].kind # connection.attempts[4].kind
    /\ connection.error.attempt = 4

\* the calls of tools the server knows
KnownCalls == {c \in 1..Len(server.calls) : server.calls[c].tool \in Tools \ {"no_such_tool"}}

\* C23: a call of a known tool that has ended has returned a result object,
\* with the error flag when something failed (no browser session, no page,
\* a failing capture): handleToolCall has not rejected.
C23_FailuresAreResults ==
    server.status # "none" =>
        \A c \in KnownCalls :
            server.calls[c].pc = "done" => server.calls[c].outcome \in {"result", "error result"}

\* where in the path of invocation c the connection failed
FailedAt(c) ==
    {i \in 1..Len(server.calls[c].path) : server.calls[c].path[i] = "connect failed"}

LiveBrowsers(state) == {b \in 1..Len(state.browsers) : state.browsers[b].live}

\* C29: at most one browser is connected at any time, and it is the one the
\* global browser refers to, however the invocations of ensureBrowser overlap.
C29_OneLiveBrowser ==
    server.status # "none" =>
        /\ Cardinality(LiveBrowsers(server)) <= 1
        /\ \A b \in LiveBrowsers(server) : server.browser = b

\* a reference decode accepts
WellFormed(ref) == parseElementRefId(ref).status = "returned"

\* the frame a well-formed reference names: its frameIndex, the main frame
\* (frame 0) when it has none
FrameOf(ref) ==
    LET r == parseElementRefId(ref).value
    IN  IF "frameIndex" \in DOMAIN r THEN r.frameIndex ELSE 0

\* the plainest references that name the same frame as ref: the first
\* element of the first snapshot of that frame, with and without "f0" for the
\* main frame
SameFrameRefIds(ref) ==
    {elementId(framePrefix(f, 1), 0) :
        f \in {FrameOf(ref)} \cup (IF FrameOf(ref) = 0 THEN {Absent} ELSE {})}

\* C28: what findElementInPage returned for a well-formed reference, whatever
\* its snapshotIndex and elementIndex, is what it returns on the same page for
\* the plainest references that name the same frame, however the readiness
\* wait settles; so any two well-formed references that name the same frame
\* give the same result.
C28_SameFrameSameResult ==
    (resolution.status = "returned" /\ page # NoPage /\ WellFormed(refId)) =>
        \A other \in SameFrameRefIds(refId), waited \in WaitOutcomes :
            LET again == findElementInPage(page, other, waited)
            IN  /\ WellFormed(other)
                /\ FrameOf(other) = FrameOf(refId)
                /\ again.status = "returned"
                /\ again.value = resolution.value

\* a reference to the second element of the second snapshot of frame 1 was
\* resolved on a page of two frames, and gave a node of frame 1
C28_Witness ==
    /\ resolution.status = "returned"
    /\ page # NoPage
    /\ Len(page.frames) = 2
    /\ WellFormed(refId)
    /\ parseElementRefId(refId).value = [frameIndex |-> 1, snapshotIndex |-> 2, elementIndex |-> 2]
    /\ resolution.value # NullResult
    /\ resolution.value.frame = 1
    /\ SameFrameRefIds(refId) = {elementId(framePrefix(1, 1), 0)}

\* host is a subdomain of base: base behind a dot, and something before the dot
IsSubdomain(host, base) ==
    /\ Len(host) > Len(base) + 1
    /\ SubSeq(host, Len(host) - Len(base), Len(host)) = <<".">> \o base

\* the allowlist names the host: as a listed domain, or as a subdomain of the
\* base of a listed wildcard
Listed(env, host) ==
    \E d \in 1..Len(allowedDomains(env, <<>>)) :
        LET domain == allowedDomains(env, <<>>)[d]
        IN  \/ host = domain
            \/ /\ Len(domain) > 2
               /\ SubSeq(domain, 1, 2) = <<"*", ".">>
               /\ IsSubdomain(host, SubSeq(domain, 3, Len(domain)))

\* C26: with a non-empty allowlist, puppeteer_navigate calls page.goto only
\* for a URL that parses and whose hostname is a listed domain or a subdomain
\* of the base of a listed wildcard; a hostname that merely ends with the text
\* of the base is not navigated to.
C26_OnlyListedHosts ==
    (navigation.status = "returned" /\ allowedDomains(navigation.env, <<>>) # <<>>) =>
        (navigation.goto # <<>> =>
            /\ ~hostname(navigation.url).thrown
            /\ Listed(navigation.env, hostname(navigation.url).name))

\* C26, its part on URLs that do not parse: they are refused whenever the
\* allowlist is not empty.
C26_UnparsableIsRefused ==
    (navigation.status = "returned" /\ allowedDomains(navigation.env, <<>>) # <<>>
     /\ hostname(navigation.url).thrown) =>
        navigation.goto = <<>> /\ navigation.isError

C27_NoReconnectAfterFifthError ==
    [][(client.status = "loaded" /\ client.closedErrors >= 5) =>
          ~(client'.sources > client.sources /\ client'.timers < client.timers)]_vars

\* C27: reconnectAttempts is between 0 and maxReconnectAttempts, it is 0
\* while the connection is open, and since the last open (or the start) one
\* reconnect has been scheduled for each closed-connection error up to the
\* fifth and none for the errors after it; the reconnect the fifth error
\* scheduled still happens.
C27_BoundedReconnects ==
    client.status = "loaded" =>
        /\ client.reconnectAttempts \in 0..maxReconnectAttempts
        /\ (client.readyState = "OPEN" => client.reconnectAttempts = 0)
        /\ client.scheduled <= 5
        /\ client.scheduled = client.reconnectAttempts
        /\ client.scheduled = IF client.closedErrors < 5 THEN client.closedErrors ELSE 5

\* a sixth closed-connection error in a row found the counter at 5 and
\* scheduled nothing
C27_Witness ==
    /\ client.status = "loaded"
    /\ client.closedErrors = 6
    /\ client.scheduled = 5
    /\ client.reconnectAttempts = 5
    /\ client.message = "Max reconnection attempts reached"

\* C30: from the user's click on Disconnect until the next click on Connect
\* the client has no EventSource.
C30_NoSourceAfterDisconnect ==
    (client.status = "loaded" /\ client.userDisconnected) => client.eventSource = 0

====
